---------------------------- MODULE Spec2Model ----------------------------
(***************************************************************************)
(* Export pipeline of neo-assetmaker: ExportService (UI thread) and        *)
(* ExportWorker (background QThread) of src/core/export_service.py, with   *)
(* the two GUI entry points of src/ui/gui_main.py that call the service.   *)
(*                                                                         *)
(* The file system is tracked relative to the running session: open(path,  *)
(* "wb") truncates, makedirs(exist_ok=True) and rmtree do not depend on    *)
(* what was there before, so what a session leaves behind in a file it     *)
(* touches is exactly what that session wrote.                             *)
(*                                                                         *)
(* Progress percentages are Python int() of float expressions; for         *)
(* 1 <= n <= 6 tasks and fewer than 40 frames the float results agree with *)
(* the integer floor divisions used here.                                  *)
(***************************************************************************)
EXTENDS Integers, Sequences, FiniteSets, TLC

\* ------------------------------------------------------------- bounds
ImgH == 2
ImgW == 2
MaxFrames == 12
MaxPending == 1
\* largest bitmap serialized pixel by pixel
MatH == 2
MatW == 2
\* frames of a source video in the frame-by-frame view of a video task
MaxSrcFrames == 3
\* completed writes of one file that are followed
MaxWrites == 2

\* ------------------------------------------------- program constants
ProgressEvery == 10
EncodeShare == 80
\* image_preview_widget.py
SCREEN_WIDTH == 360
SCREEN_HEIGHT == 640
LOGO_WIDTH == 256
LOGO_HEIGHT == 256
\* config.VIDEO_WIDTH, imported by export_service.py
VIDEO_WIDTH == 384
\* video_preview_widget.py: TARGET_WIDTH, TARGET_HEIGHT (TARGET_ASPECT_RATIO is
\* their quotient 9/16), the smallest crop width, the key step
TARGET_WIDTH == 360
TARGET_HEIGHT == 640
MinCropWidth == 90
KeyStep == 10

ImageKinds == {"logo", "overlay", "display"}
VideoKinds == {"loop", "intro"}
\* output directories: asset/<operator name>, asset/<display name> (gui_main.py),
\* and the directory a direct caller of the service passes
OperatorDir == "asset/op"
DisplayDir == "asset/disp"
ApiDir == "out"
NoDir == "none"

\* epconfig_data as a sequence of <<key, value>> entries in insertion order:
\* the map _export_operator_assets builds, and what a caller of the wrappers
\* passes (None or an empty map, or a map)
GuiManifest == << <<"operator", "op">>, <<"background_color", "0xffffffff">> >>
ApiManifests == { <<>>, << <<"name", "disp">> >> }

VARIABLES
    \* ExportService and its caller (UI thread)
    svcWorker,      \* ExportService._worker is not None
    svcFfmpeg,      \* ExportService._ffmpeg_path is non-empty
    envFfmpeg,      \* an encoder executable is discoverable (app dir, cwd, PATH)
    pendingCap,     \* terminal notifications that may wait while a request is made
    uiPc,           \* "idle", or "cleanup": inside _cleanup_worker, at wait()
    queue,          \* queued terminal notifications: "cur" from the worker the
                    \* service holds or created last, "old" from an earlier one
    reqResult,      \* outcome of the most recent export request
    reqDirMade,     \* directory the most recent request created before export_all
    \* ExportWorker fields and the position of run()
    wpc, wTasks, wOutDir, wEpconfig, wFfmpeg, wCancelled,
    ti, completed, y, x, frame_index, total_frames, exc,
    \* what the session did to the file system
    outDirMade, argb, mp4, tempDir, tempFrames, epconfigWrites,
    \* what the session emitted and did (history)
    nCompleted, nFailed, failMsg, afterTerm, progTask, progPct, execLog,
    reportedCount, cancelAt, pixAfterCancel, framesAfterCancel,
    encAfterCancel, startAfterCancel, tempAtTerminal,
    shortRead,      \* cap.read() came back empty inside a task's frame range
    manifestFailed, \* _generate_epconfig caught an exception
    epconfigFile,   \* the lines the session wrote to epconfig.txt
    \* the .argb codec run on one bitmap (_generate_logo, _generate_overlay_display)
    mat,            \* the bitmap handed to the task: rows of pixels, a pixel is
                    \* its channel values in B, G, R(, A) order
    result_file,    \* the bytes written to result_path
    codec,          \* which generator ran: "none", "logo", "overlay"
    \* ImagePreviewWidget
    original_image,   \* size of the bitmap loaded (always BGRA), or NoImage
    processed_image,  \* rows of runs of pixels, or <<>> for None
    preview_mode,     \* "logo", "overlay", "display"
    background_color, \* 32-bit ARGB value, as <<upper 16 bits, lower 16 bits>>
    \* VideoPreviewWidget
    video,                \* the file loaded: [frames, w, h], NoVideo while cap is None
    current_frame_index,
    cropbox,              \* <<x, y, w, h>>
    \* TimelineSlider
    tl_total_frames, in_point, out_point,
    range_touched,        \* history: a point was set since the last video load
    \* ApplicationController and OperatorPanel
    crop_rect,            \* ApplicationController._crop_rect
    loop_video_path,      \* the file chosen as loop video, NoVideo for ""
    intro_video_path,     \* the file chosen as intro video, NoVideo for ""
    loop_video_params,    \* the records the last step handed to export_all,
    intro_video_params,   \* NoParams when it handed none
    \* ApplicationController, OperatorPanel: images of an operator export
    current_mode,         \* ApplicationController._current_mode
    logo_image_path,      \* the file chosen as logo, NoImage for ""
    overlay_image_path,   \* the file chosen as overlay, NoImage for ""
    logo_mat,             \* the bitmaps the last step handed to export_all,
    overlay_mat,          \* <<>> for None
    \* ExportWorker._generate_video, frame by frame
    src_video,            \* the file behind params.video_path: [frames, w, h]
    vparams,              \* params: [cropbox, start_frame, end_frame]
    cap_pos,              \* the decoder's position: index of the frame read next
    loop_index,           \* frame_index of the for loop
    temp_files,           \* temp_frames: number in the file name -> frame written
    encoder_input,        \* the frames ffmpeg finds under frame_%06d.png
    vpc,                  \* "loop", "encode", "done" or "raised"
    \* the image files of one output directory over several sessions
    out_files,            \* file name -> bytes, <<>> for a file not there
    times_written         \* file name -> completed writes, up to MaxWrites

svcVars == <<svcWorker, svcFfmpeg, envFfmpeg, pendingCap, uiPc, queue, reqResult, reqDirMade>>
wFields == <<wTasks, wOutDir, wEpconfig, wFfmpeg>>
wLocals == <<ti, completed, y, x, frame_index, total_frames, exc>>
fsVars == <<outDirMade, argb, mp4, tempDir, tempFrames, epconfigWrites, epconfigFile>>
termVars == <<nCompleted, nFailed, failMsg, reportedCount, tempAtTerminal>>
progVars == <<progTask, progPct>>
cancelHist == <<cancelAt, pixAfterCancel, framesAfterCancel, encAfterCancel,
                startAfterCancel>>
sessHist == <<shortRead, manifestFailed>>
pipeVars == <<svcVars, wpc, wFields, wCancelled, wLocals, fsVars, termVars, afterTerm,
              progVars, execLog, cancelHist, sessHist>>
codecVars == <<mat, result_file, codec>>
\* what no step of the export service or of its worker writes
imageVars == <<original_image, processed_image, preview_mode, background_color>>
previewVars == <<video, current_frame_index, cropbox>>
timelineVars == <<tl_total_frames, in_point, out_point, range_touched>>
panelVars == <<loop_video_path, intro_video_path>>
paramVars == <<loop_video_params, intro_video_params>>
uiVars == <<previewVars, timelineVars, crop_rect, panelVars, paramVars>>
assetVars == <<current_mode, logo_image_path, overlay_image_path, logo_mat, overlay_mat>>
frameVars == <<src_video, vparams, cap_pos, loop_index, temp_files, encoder_input, vpc>>
dirVars == <<out_files, times_written>>
widgetVars == <<codecVars, imageVars, uiVars, assetVars, frameVars, dirVars>>
vars == <<pipeVars, widgetVars>>

\* ------------------------------------------------------------ helpers
IsImage(k) == k \in ImageKinds

NumTasks == Len(wTasks)
CurKind == wTasks[ti + 1]

\* QThread.isRunning() of the worker object created last
isRunning == wpc # "idle"

\* faulty variant: the running check is lost
is_exporting_never == FALSE

\* ExportService.is_exporting
is_exporting == svcWorker /\ isRunning

\* ExportService._find_ffmpeg / ExportWorker._find_ffmpeg: non-empty result?
find_ffmpeg == envFfmpeg

\* faulty variant: the empty task list is not rejected
NoTasks_never(tasks) == FALSE

\* if not tasks: export_failed.emit(...); return
NoTasks(tasks) == tasks = <<>>

\* faulty variant: the entries are written last first
EpconfigLines_reversed(data) ==
    [i \in 1..Len(data) |->
        <<data[Len(data) + 1 - i][1], "=", data[Len(data) + 1 - i][2]>>]

\* for key, value in self._epconfig_data.items(): f.write(f"{key}={value}\n")
EpconfigLines(data) == [i \in 1..Len(data) |-> <<data[i][1], "=", data[i][2]>>]

\* the task list export_all builds, in its fixed order
Opt(present, kind) == IF present THEN <<kind>> ELSE <<>>
BuildTasks(logo, overlay, display, loop, intro) ==
    Opt(logo, "logo") \o Opt(overlay, "overlay") \o Opt(display, "display")
        \o Opt(loop, "loop") \o Opt(intro, "intro")

\* int((i / total_tasks) * 100)
BaseProgress(i, n) == (i * 100) \div n
\* faulty variant: the frame share is not divided among the tasks
FrameProgress_whole(fi, tf, n) == (fi * 100) \div tf
\* int((frame_index / total_frames) * (100 / total_tasks))
FrameProgress(fi, tf, n) == (fi * 100) \div (tf * n)
\* int(80 / total_tasks)
EncodeProgress(n) == EncodeShare \div n

NoFiles == [k \in ImageKinds |-> -1]
NoVideos == [k \in VideoKinds |-> FALSE]

TerminalEmitted == nCompleted + nFailed > 0

\* ----------------------------------------------------------------- Init
\* no bitmap is being serialized
CodecOff == mat = <<>> /\ result_file = <<>> /\ codec = "none"

NoImage == [w |-> 0, h |-> 0]

\* ImagePreviewWidget.__init__
ImagePreviewInit ==
    /\ original_image = NoImage /\ processed_image = <<>>
    /\ preview_mode = "logo" /\ background_color = <<65535, 65535>>

NoVideo == [frames |-> 0, w |-> 0, h |-> 0]
NoParams == [src |-> NoVideo, cropbox |-> <<0, 0, 0, 0>>, start_frame |-> 0,
             end_frame |-> 0]

\* VideoPreviewWidget.__init__, TimelineSlider.__init__,
\* ApplicationController.__init__, OperatorPanel with no file chosen
UiInit ==
    /\ video = NoVideo /\ current_frame_index = 0
    /\ cropbox = <<0, 0, TARGET_WIDTH, TARGET_HEIGHT>>
    /\ tl_total_frames = 100 /\ in_point = 0 /\ out_point = 100
    /\ range_touched = FALSE
    /\ crop_rect = <<0, 0, SCREEN_WIDTH, SCREEN_HEIGHT>>
    /\ loop_video_path = NoVideo /\ intro_video_path = NoVideo
    /\ loop_video_params = NoParams /\ intro_video_params = NoParams

\* ApplicationController.__init__ (_current_mode = 0), OperatorPanel with no
\* image chosen
AssetInit ==
    /\ current_mode = 0
    /\ logo_image_path = NoImage /\ overlay_image_path = NoImage
    /\ logo_mat = <<>> /\ overlay_mat = <<>>

ArgbNames == {"logo.argb", "overlay.argb", "display.argb"}

\* an output directory without image files
DirEmpty ==
    /\ out_files = [name \in ArgbNames |-> <<>>]
    /\ times_written = [name \in ArgbNames |-> 0]

\* no video task is running
FramesOff ==
    /\ src_video = NoVideo
    /\ vparams = [cropbox |-> <<0, 0, 0, 0>>, start_frame |-> 0, end_frame |-> 0]
    /\ cap_pos = 0 /\ loop_index = 0
    /\ temp_files = <<>> /\ encoder_input = <<>>
    /\ vpc = "done"
    /\ DirEmpty

\* ExportService.__init__; no worker exists
PipelineInit ==
    /\ svcWorker = FALSE /\ svcFfmpeg = FALSE /\ envFfmpeg \in BOOLEAN
    /\ pendingCap \in {MaxPending, MaxPending + 1}
    /\ uiPc = "idle" /\ queue = <<>> /\ reqResult = "none" /\ reqDirMade = NoDir
    /\ wpc = "idle" /\ wTasks = <<>> /\ wOutDir = NoDir /\ wEpconfig = <<>>
    /\ wFfmpeg = FALSE /\ wCancelled = FALSE
    /\ ti = 0 /\ completed = 0 /\ y = 0 /\ x = 0 /\ frame_index = 0
    /\ total_frames = 0 /\ exc = "none"
    /\ outDirMade = FALSE /\ argb = NoFiles /\ mp4 = NoVideos
    /\ tempDir = FALSE /\ tempFrames = 0 /\ epconfigWrites = 0
    /\ nCompleted = 0 /\ nFailed = 0 /\ failMsg = "none" /\ afterTerm = FALSE
    /\ progTask = -1 /\ progPct = 0 /\ execLog = <<>> /\ reportedCount = -1
    /\ cancelAt = "none" /\ pixAfterCancel = 0 /\ framesAfterCancel = 0
    /\ encAfterCancel = FALSE /\ startAfterCancel = FALSE /\ tempAtTerminal = FALSE
    /\ shortRead = FALSE /\ manifestFailed = FALSE /\ epconfigFile = <<>>

Init ==
    /\ PipelineInit /\ pendingCap = MaxPending
    /\ CodecOff /\ ImagePreviewInit /\ UiInit /\ AssetInit /\ FramesOff

\* faulty variant: the new session inherits the cancellation flag
StartWorker_keepsflag(tasks, dir, epc, ffmpeg) ==
    /\ svcWorker' = TRUE
    /\ wTasks' = tasks /\ wOutDir' = dir /\ wEpconfig' = epc
    /\ wFfmpeg' = (ffmpeg \/ find_ffmpeg)
    /\ wCancelled' = wCancelled
    /\ wpc' = "run"
    /\ queue' = [k \in 1..Len(queue) |-> "old"]
    /\ ti' = 0 /\ completed' = 0 /\ y' = 0 /\ x' = 0 /\ frame_index' = 0
    /\ total_frames' = 0 /\ exc' = "none"
    /\ outDirMade' = FALSE /\ argb' = NoFiles /\ mp4' = NoVideos
    /\ tempDir' = FALSE /\ tempFrames' = 0 /\ epconfigWrites' = 0
    /\ nCompleted' = 0 /\ nFailed' = 0 /\ failMsg' = "none" /\ afterTerm' = FALSE
    /\ progTask' = -1 /\ progPct' = 0 /\ execLog' = <<>> /\ reportedCount' = -1
    /\ cancelAt' = "none" /\ pixAfterCancel' = 0 /\ framesAfterCancel' = 0
    /\ encAfterCancel' = FALSE /\ startAfterCancel' = FALSE
    /\ tempAtTerminal' = FALSE
    /\ shortRead' = FALSE /\ manifestFailed' = FALSE /\ epconfigFile' = <<>>

\* ------------------------------------------------------ ExportService
\* ExportWorker(self); setup(tasks, output_dir, ffmpeg_path, epconfig_data);
\* connect; start().  The session's history starts afresh.
StartWorker(tasks, dir, epc, ffmpeg) ==
    /\ svcWorker' = TRUE
    /\ wTasks' = tasks /\ wOutDir' = dir /\ wEpconfig' = epc
    /\ wFfmpeg' = (ffmpeg \/ find_ffmpeg)
    /\ wCancelled' = FALSE
    /\ wpc' = "run"
    /\ queue' = [k \in 1..Len(queue) |-> "old"]
    /\ ti' = 0 /\ completed' = 0 /\ y' = 0 /\ x' = 0 /\ frame_index' = 0
    /\ total_frames' = 0 /\ exc' = "none"
    /\ outDirMade' = FALSE /\ argb' = NoFiles /\ mp4' = NoVideos
    /\ tempDir' = FALSE /\ tempFrames' = 0 /\ epconfigWrites' = 0
    /\ nCompleted' = 0 /\ nFailed' = 0 /\ failMsg' = "none" /\ afterTerm' = FALSE
    /\ progTask' = -1 /\ progPct' = 0 /\ execLog' = <<>> /\ reportedCount' = -1
    /\ cancelAt' = "none" /\ pixAfterCancel' = 0 /\ framesAfterCancel' = 0
    /\ encAfterCancel' = FALSE /\ startAfterCancel' = FALSE
    /\ tempAtTerminal' = FALSE
    /\ shortRead' = FALSE /\ manifestFailed' = FALSE /\ epconfigFile' = <<>>

\* export_all returns after emitting export_failed(msg): nothing else changes
Reject(why, ffmpeg) ==
    /\ reqResult' = why
    /\ svcFfmpeg' = ffmpeg
    /\ UNCHANGED <<svcWorker, queue, wpc, wFields, wCancelled, wLocals, fsVars,
                   termVars, afterTerm, progVars, execLog, cancelHist, sessHist>>

\* ExportService.export_all; `made` is the directory its caller created first
export_all(dir, logo, overlay, display, loop, intro, epc, made) ==
    LET tasks == BuildTasks(logo, overlay, display, loop, intro)
        \* the ffmpeg_available property caches what _find_ffmpeg returns
        avail == svcFfmpeg \/ find_ffmpeg
    IN  /\ uiPc = "idle"
        /\ is_exporting \/ Len(queue) < pendingCap
        /\ reqDirMade' = made
        /\ UNCHANGED <<envFfmpeg, pendingCap, uiPc, widgetVars>>
        /\ IF is_exporting
             THEN Reject("busy", svcFfmpeg)
           ELSE IF (loop \/ intro) /\ ~avail
             THEN Reject("noffmpeg", svcFfmpeg)
           ELSE IF NoTasks(tasks)
             THEN Reject("empty", svcFfmpeg)
           ELSE /\ reqResult' = "started"
                /\ svcFfmpeg' = (IF loop \/ intro THEN avail ELSE svcFfmpeg)
                /\ StartWorker(tasks, dir, epc, svcFfmpeg')

\* the single-asset wrappers; has_mat: the bitmap passed is not None
ExportLogo ==
    \E epc \in ApiManifests, has_mat \in BOOLEAN :
        export_all(ApiDir, has_mat, FALSE, FALSE, FALSE, FALSE, epc, NoDir)

ExportOverlay ==
    \E epc \in ApiManifests, has_mat \in BOOLEAN :
        export_all(ApiDir, FALSE, has_mat, FALSE, FALSE, FALSE, epc, NoDir)

ExportDisplay ==
    \E epc \in ApiManifests, has_mat \in BOOLEAN :
        export_all(ApiDir, FALSE, FALSE, has_mat, FALSE, FALSE, epc, NoDir)

ExportVideo ==
    \E epc \in ApiManifests, video_type \in {"loop", "intro", "other"} :
        IF video_type = "loop"
          THEN export_all(ApiDir, FALSE, FALSE, FALSE, TRUE, FALSE, epc, NoDir)
        ELSE IF video_type = "intro"
          THEN export_all(ApiDir, FALSE, FALSE, FALSE, FALSE, TRUE, epc, NoDir)
        ELSE /\ uiPc = "idle"
             /\ reqDirMade' = NoDir
             /\ UNCHANGED <<envFfmpeg, pendingCap, uiPc, widgetVars>>
             /\ Reject("badtype", svcFfmpeg)

\* ApplicationController._export_operator_assets (operator name entered, loop
\* video selected): os.makedirs(output_dir) comes first, the loop video is
\* mandatory, the manifest is never empty
OperatorExport ==
    \E logo \in BOOLEAN, overlay \in BOOLEAN, intro \in BOOLEAN :
        export_all(OperatorDir, logo, overlay, FALSE, TRUE, intro, GuiManifest,
                   OperatorDir)

\* ApplicationController._on_export_display (display name entered, image
\* loaded): os.makedirs(output_dir), then export_display(output_dir, image)
GuiExportDisplay ==
    export_all(DisplayDir, FALSE, FALSE, TRUE, FALSE, FALSE, <<>>, DisplayDir)

\* ExportService.cancel (reached from the progress dialog's cancel button)
Cancel ==
    /\ uiPc = "idle"
    /\ svcWorker /\ isRunning
    /\ ~wCancelled
    /\ wCancelled' = TRUE
    /\ UNCHANGED <<svcVars, widgetVars, sessHist, wpc, wFields, wLocals, fsVars, termVars, afterTerm,
                   progVars, execLog, cancelHist>>

\* _on_export_completed / _on_export_failed: forward the notification, then
\* enter _cleanup_worker
DeliverTerminal ==
    /\ uiPc = "idle"
    /\ queue # <<>>
    /\ queue' = Tail(queue)
    /\ uiPc' = "cleanup"
    /\ UNCHANGED <<svcWorker, svcFfmpeg, envFfmpeg, pendingCap, widgetVars, sessHist, reqResult, reqDirMade, wpc,
                   wFields, wCancelled, wLocals, fsVars, termVars, afterTerm,
                   progVars, execLog, cancelHist>>

\* _cleanup_worker: wait() returns once the thread has finished
CleanupWorker ==
    /\ uiPc = "cleanup"
    /\ svcWorker => ~isRunning
    /\ svcWorker' = FALSE
    /\ uiPc' = "idle"
    /\ UNCHANGED <<svcFfmpeg, envFfmpeg, pendingCap, widgetVars, sessHist, queue, reqResult, reqDirMade, wpc,
                   wFields, wCancelled, wLocals, fsVars, termVars, afterTerm,
                   progVars, execLog, cancelHist>>

\* ------------------------------------------------------- ExportWorker
\* a progress_updated emission of the worker
EmitProgress(task, pct) ==
    /\ progTask' = task
    /\ progPct' = pct
    /\ afterTerm' = (afterTerm \/ TerminalEmitted)

\* an export_completed / export_failed emission of the worker, queued to the
\* service's slot in the UI thread
EmitTerminal(kind, msg) ==
    /\ nCompleted' = nCompleted + (IF kind = "completed" THEN 1 ELSE 0)
    /\ nFailed' = nFailed + (IF kind = "failed" THEN 1 ELSE 0)
    /\ failMsg' = (IF kind = "failed" THEN msg ELSE failMsg)
    /\ queue' = Append(queue, "cur")
    /\ tempAtTerminal' = tempDir

\* faulty variant: the temporary directory is left behind
CleanupTemp_leaves == UNCHANGED <<tempDir, tempFrames>>

\* finally: if os.path.exists(temp_dir): shutil.rmtree(temp_dir)
CleanupTemp ==
    /\ tempDir' = FALSE
    /\ tempFrames' = 0

\* the locals of _generate_logo / _generate_overlay_display / _generate_video
\* go out of scope when the call returns or raises
DropTaskLocals ==
    /\ y' = 0 /\ x' = 0 /\ frame_index' = 0 /\ total_frames' = 0

\* faulty variant: the completed counter is not advanced
TaskReturns_nocount ==
    /\ completed' = completed
    /\ ti' = ti + 1
    /\ wpc' = "loop"
    /\ DropTaskLocals

\* _execute_task returned: completed += 1, next iteration of the for loop
TaskReturns ==
    /\ completed' = completed + 1
    /\ ti' = ti + 1
    /\ wpc' = "loop"
    /\ DropTaskLocals

\* faulty variant: the per-row poll is lost
RowCancelCheck_never == FALSE

\* faulty variant: the check between tasks is lost
BetweenTasksCheck_never == FALSE

\* the three places run() and its tasks poll self._cancelled
BetweenTasksCheck == wCancelled
RowCancelCheck == wCancelled
FrameCancelCheck == wCancelled

\* run(): the empty-list exit, or os.makedirs(self._output_dir)
RunStart ==
    /\ wpc = "run"
    /\ IF NumTasks = 0
         THEN /\ EmitTerminal("completed", "none")
              /\ wpc' = "done"
              /\ UNCHANGED <<outDirMade, reportedCount>>
         ELSE \E ok \in BOOLEAN :
                IF ok
                  THEN /\ outDirMade' = TRUE
                       /\ wpc' = "loop"
                       /\ UNCHANGED <<nCompleted, nFailed, failMsg, queue,
                                      reportedCount, tempAtTerminal>>
                  ELSE /\ EmitTerminal("failed", "error")
                       /\ wpc' = "done"
                       /\ UNCHANGED <<outDirMade, reportedCount>>
    /\ afterTerm' = (afterTerm \/ (wpc' = "done" /\ TerminalEmitted))
    /\ UNCHANGED <<svcWorker, svcFfmpeg, envFfmpeg, pendingCap, widgetVars, sessHist, uiPc, reqResult, reqDirMade,
                   wFields, wCancelled, wLocals, argb, mp4, tempDir, tempFrames,
                   epconfigWrites, epconfigFile, progVars, execLog, cancelHist>>

\* faulty variant: the return after the cancellation notification is missing, the
\* loop goes on with the next task
CancelledBetweenTasks_noreturn ==
    /\ wpc = "loop" /\ ti < NumTasks
    /\ BetweenTasksCheck
    /\ EmitTerminal("failed", "cancelled")
    /\ wpc' = "loop"
    /\ ti' = ti + 1
    /\ cancelAt' = "between"
    /\ afterTerm' = (afterTerm \/ TerminalEmitted)
    /\ UNCHANGED <<svcWorker, svcFfmpeg, envFfmpeg, pendingCap, widgetVars, sessHist, uiPc, reqResult, reqDirMade,
                   wFields, wCancelled, completed, y, x, frame_index, total_frames,
                   exc, fsVars, reportedCount, progVars, execLog, pixAfterCancel,
                   framesAfterCancel, encAfterCancel, startAfterCancel>>

\* for i, task in enumerate(self._tasks): the between-task check
CancelledBetweenTasks ==
    /\ wpc = "loop" /\ ti < NumTasks
    /\ BetweenTasksCheck
    /\ EmitTerminal("failed", "cancelled")
    /\ wpc' = "done"
    /\ cancelAt' = "between"
    /\ afterTerm' = (afterTerm \/ TerminalEmitted)
    /\ UNCHANGED <<svcWorker, svcFfmpeg, envFfmpeg, pendingCap, widgetVars, sessHist, uiPc, reqResult, reqDirMade,
                   wFields, wCancelled, wLocals, fsVars, reportedCount, progVars,
                   execLog, pixAfterCancel, framesAfterCancel, encAfterCancel,
                   startAfterCancel>>

\* _execute_task for a LOGO / OVERLAY / DISPLAY task, up to open(result_path, "wb")
ImageTaskStart ==
    /\ wpc = "loop" /\ ti < NumTasks
    /\ ~BetweenTasksCheck
    /\ IsImage(CurKind)
    /\ EmitProgress(ti, BaseProgress(ti, NumTasks))
    /\ execLog' = Append(execLog, ti)
    /\ startAfterCancel' = (startAfterCancel \/ wCancelled)
    /\ \E opened \in BOOLEAN :
         IF opened
           THEN /\ argb' = [argb EXCEPT ![CurKind] = 0]
                /\ y' = 0 /\ x' = 0
                /\ wpc' = "row"
                /\ exc' = "none"
           ELSE /\ exc' = "error"
                /\ wpc' = "except"
                /\ UNCHANGED <<argb, y, x>>
    /\ UNCHANGED <<svcVars, widgetVars, sessHist, wFields, wCancelled, ti, completed, frame_index,
                   total_frames, outDirMade, mp4, tempDir, tempFrames,
                   epconfigWrites, epconfigFile, termVars, cancelAt, pixAfterCancel,
                   framesAfterCancel, encAfterCancel>>

\* for y in range(h): if self._cancelled: raise InterruptedError
RowCheck ==
    /\ wpc = "row"
    /\ IF RowCancelCheck
         THEN /\ exc' = "cancel"
              /\ cancelAt' = "row"
              /\ wpc' = "except"
              /\ DropTaskLocals
         ELSE /\ wpc' = "pix"
              /\ UNCHANGED <<exc, cancelAt, y, x, frame_index, total_frames>>
    /\ UNCHANGED <<svcVars, widgetVars, sessHist, wFields, wCancelled, ti, completed, fsVars, termVars, afterTerm, progVars, execLog,
                   pixAfterCancel, framesAfterCancel, encAfterCancel,
                   startAfterCancel>>

\* f.write(struct.pack("BBBB", ...)) for one pixel, and the loop bookkeeping
PixelWrite ==
    /\ wpc = "pix"
    /\ argb' = [argb EXCEPT ![CurKind] = @ + 1]
    /\ pixAfterCancel' = pixAfterCancel + (IF wCancelled THEN 1 ELSE 0)
    /\ IF x + 1 < ImgW
         THEN /\ x' = x + 1
              /\ UNCHANGED <<y, wpc, ti, completed, frame_index, total_frames>>
         ELSE IF y + 1 < ImgH
           THEN /\ x' = 0
                /\ y' = y + 1
                /\ wpc' = "row"
                /\ UNCHANGED <<ti, completed, frame_index, total_frames>>
           ELSE TaskReturns
    /\ UNCHANGED <<svcVars, widgetVars, sessHist, wFields, wCancelled, exc,
                   outDirMade, mp4, tempDir, tempFrames, epconfigWrites, epconfigFile, termVars,
                   afterTerm, progVars, execLog, cancelAt, framesAfterCancel,
                   encAfterCancel, startAfterCancel>>

\* _execute_task for a LOOP_VIDEO / INTRO_VIDEO task: the encoder-path check,
\* os.makedirs(temp_dir), cv2.VideoCapture(...), cap.isOpened()
VideoTaskStart ==
    /\ wpc = "loop" /\ ti < NumTasks
    /\ ~BetweenTasksCheck
    /\ ~IsImage(CurKind)
    /\ EmitProgress(ti, BaseProgress(ti, NumTasks))
    /\ execLog' = Append(execLog, ti)
    /\ startAfterCancel' = (startAfterCancel \/ wCancelled)
    /\ frame_index' = 0
    /\ IF ~wFfmpeg
         THEN /\ exc' = "error"
              /\ wpc' = "except"
              /\ UNCHANGED <<tempDir, total_frames>>
         ELSE /\ tempDir' = TRUE
              /\ \E opened \in BOOLEAN, tf \in 0..MaxFrames :
                   IF opened
                     THEN /\ total_frames' = tf
                          /\ exc' = "none"
                          /\ wpc' = (IF tf = 0 THEN "encode" ELSE "frame")
                     ELSE /\ exc' = "error"
                          /\ wpc' = "finally"
                          /\ UNCHANGED total_frames
    /\ UNCHANGED <<svcVars, widgetVars, sessHist, wFields, wCancelled, ti, completed, y, x, outDirMade,
                   argb, mp4, tempFrames, epconfigWrites, epconfigFile, termVars, cancelAt,
                   pixAfterCancel, framesAfterCancel, encAfterCancel>>

\* faulty variant: cancellation leaves the frame loop with break instead of raising
FrameCheck_break ==
    /\ wpc = "frame"
    /\ IF FrameCancelCheck
         THEN /\ exc' = "none"
              /\ cancelAt' = "frame"
              /\ wpc' = "encode"
              /\ UNCHANGED shortRead
         ELSE /\ UNCHANGED cancelAt
              /\ \E ret \in {"frame", "short", "raise"} :
                   /\ exc' = (IF ret = "raise" THEN "error" ELSE "none")
                   /\ shortRead' = (shortRead \/ ret = "short")
                   /\ wpc' = CASE ret = "frame" -> "fwrite"
                               [] ret = "short" -> "encode"
                               [] OTHER -> "finally"
    /\ UNCHANGED <<svcVars, widgetVars, manifestFailed, wFields, wCancelled, ti, completed, y, x, frame_index,
                   total_frames, fsVars, termVars, afterTerm, progVars, execLog,
                   pixAfterCancel, framesAfterCancel, encAfterCancel,
                   startAfterCancel>>

\* for frame_index in range(total_frames): the cancellation check and cap.read()
FrameCheck ==
    /\ wpc = "frame"
    /\ IF FrameCancelCheck
         THEN /\ exc' = "cancel"
              /\ cancelAt' = "frame"
              /\ wpc' = "finally"
              /\ UNCHANGED shortRead
         ELSE /\ UNCHANGED cancelAt
              /\ \E ret \in {"frame", "short", "raise"} :
                   /\ exc' = (IF ret = "raise" THEN "error" ELSE "none")
                   /\ shortRead' = (shortRead \/ ret = "short")
                   /\ wpc' = CASE ret = "frame" -> "fwrite"
                               [] ret = "short" -> "encode"
                               [] OTHER -> "finally"
    /\ UNCHANGED <<svcVars, widgetVars, manifestFailed, wFields, wCancelled, ti, completed, y, x, frame_index,
                   total_frames, fsVars, termVars, afterTerm, progVars, execLog,
                   pixAfterCancel, framesAfterCancel, encAfterCancel,
                   startAfterCancel>>

\* crop, rotate, resize, pad, cv2.imwrite(frame_path, frame), progress
FrameWrite ==
    /\ wpc = "fwrite"
    /\ tempFrames' = tempFrames + 1
    /\ framesAfterCancel' = framesAfterCancel + (IF wCancelled THEN 1 ELSE 0)
    /\ IF frame_index % ProgressEvery = 0
         THEN EmitProgress(ti, BaseProgress(ti, NumTasks)
                                 + FrameProgress(frame_index, total_frames, NumTasks))
         ELSE UNCHANGED <<progVars, afterTerm>>
    /\ frame_index' = frame_index + 1
    /\ wpc' = (IF frame_index + 1 < total_frames THEN "frame" ELSE "encode")
    /\ UNCHANGED <<svcVars, widgetVars, sessHist, wFields, wCancelled, ti, completed, y, x, total_frames,
                   exc, outDirMade, argb, mp4, tempDir, epconfigWrites, epconfigFile, termVars,
                   execLog, cancelAt, pixAfterCancel, encAfterCancel,
                   startAfterCancel>>

\* cap.release(); the "encoding" progress; subprocess.run(ffmpeg_cmd) is entered
EncodeStart ==
    /\ wpc = "encode"
    /\ EmitProgress(ti, BaseProgress(ti, NumTasks) + EncodeProgress(NumTasks))
    /\ encAfterCancel' = (encAfterCancel \/ wCancelled)
    /\ wpc' = "ffmpeg"
    /\ UNCHANGED <<svcVars, widgetVars, sessHist, wFields, wCancelled, wLocals, fsVars, termVars, execLog,
                   cancelAt, pixAfterCancel, framesAfterCancel,
                   startAfterCancel>>

\* subprocess.run returns; a non-zero return code raises RuntimeError
EncoderExit ==
    /\ wpc = "ffmpeg"
    /\ \E returncode \in {0, 1} :
         IF returncode = 0
           THEN /\ mp4' = [mp4 EXCEPT ![CurKind] = TRUE]
                /\ exc' = "none"
           ELSE /\ exc' = "error"
                /\ UNCHANGED mp4
    /\ wpc' = "finally"
    /\ UNCHANGED <<svcVars, widgetVars, sessHist, wFields, wCancelled, ti, completed, y, x, frame_index,
                   total_frames, outDirMade, argb, tempDir, tempFrames,
                   epconfigWrites, epconfigFile, termVars, afterTerm, progVars, execLog,
                   cancelHist>>

\* the finally block of _generate_video, then return or propagate
VideoFinally ==
    /\ wpc = "finally"
    /\ CleanupTemp
    /\ IF exc = "none"
         THEN TaskReturns
         ELSE /\ wpc' = "except"
              /\ DropTaskLocals
              /\ UNCHANGED <<ti, completed>>
    /\ UNCHANGED <<svcVars, widgetVars, sessHist, wFields, wCancelled, exc, outDirMade, argb, mp4, epconfigWrites, epconfigFile, termVars, afterTerm,
                   progVars, execLog, cancelHist>>

\* faulty variant: the return after the failure notification is missing, the loop
\* goes on with the next task
TaskExcept_noreturn ==
    /\ wpc = "except"
    /\ EmitTerminal("failed", IF exc = "cancel" THEN "task_cancelled" ELSE "task_error")
    /\ wpc' = "loop"
    /\ ti' = ti + 1
    /\ exc' = "none"
    /\ afterTerm' = (afterTerm \/ TerminalEmitted)
    /\ UNCHANGED <<svcWorker, svcFfmpeg, envFfmpeg, pendingCap, widgetVars, sessHist, uiPc, reqResult, reqDirMade,
                   wFields, wCancelled, completed, y, x, frame_index, total_frames,
                   fsVars, reportedCount, progVars, execLog, cancelHist>>

\* except Exception as e: export_failed.emit(f"导出 {type} 失败: {e}"); return
TaskExcept ==
    /\ wpc = "except"
    /\ EmitTerminal("failed", IF exc = "cancel" THEN "task_cancelled" ELSE "task_error")
    /\ wpc' = "done"
    /\ exc' = "none"
    /\ afterTerm' = (afterTerm \/ TerminalEmitted)
    /\ UNCHANGED <<svcWorker, svcFfmpeg, envFfmpeg, pendingCap, widgetVars, sessHist, uiPc, reqResult, reqDirMade,
                   wFields, wCancelled, ti, completed, y, x, frame_index,
                   total_frames, fsVars, reportedCount, progVars, execLog,
                   cancelHist>>

\* faulty variant: an exception while writing the manifest reaches run()'s outer
\* handler and fails the session
Manifest_raises ==
    /\ wpc = "loop" /\ ti = NumTasks
    /\ IF wEpconfig # <<>>
         THEN \E n \in -1..Len(wEpconfig) :
                /\ epconfigWrites' = epconfigWrites + (IF n >= 0 THEN 1 ELSE 0)
                /\ epconfigFile' = (IF n >= 0
                                      THEN SubSeq(EpconfigLines(wEpconfig), 1, n)
                                      ELSE epconfigFile)
                /\ manifestFailed' = (n < Len(wEpconfig))
                /\ IF n < Len(wEpconfig)
                     THEN /\ EmitTerminal("failed", "error")
                          /\ wpc' = "done"
                          /\ UNCHANGED reportedCount
                     ELSE /\ wpc' = "final"
                          /\ UNCHANGED <<termVars, queue>>
         ELSE /\ wpc' = "final"
              /\ UNCHANGED <<epconfigWrites, epconfigFile, manifestFailed, termVars,
                             queue>>
    /\ UNCHANGED <<svcWorker, svcFfmpeg, envFfmpeg, pendingCap, widgetVars, uiPc, reqResult, reqDirMade,
                   shortRead, wFields, wCancelled, wLocals, outDirMade, argb,
                   mp4, tempDir, tempFrames, afterTerm, progVars, execLog,
                   cancelHist>>

\* after the loop: if self._epconfig_data: self._generate_epconfig().  open()
\* may raise (n = -1, the file is not touched), a write may raise after n lines,
\* or all Len(data) lines are written; an exception is logged and swallowed
Manifest ==
    /\ wpc = "loop" /\ ti = NumTasks
    /\ IF wEpconfig # <<>>
         THEN \E n \in -1..Len(wEpconfig) :
                /\ epconfigWrites' = epconfigWrites + (IF n >= 0 THEN 1 ELSE 0)
                /\ epconfigFile' = (IF n >= 0
                                      THEN SubSeq(EpconfigLines(wEpconfig), 1, n)
                                      ELSE epconfigFile)
                /\ manifestFailed' = (n < Len(wEpconfig))
         ELSE UNCHANGED <<epconfigWrites, epconfigFile, manifestFailed>>
    /\ wpc' = "final"
    /\ UNCHANGED <<svcVars, widgetVars, shortRead, wFields, wCancelled, wLocals, outDirMade, argb,
                   mp4, tempDir, tempFrames, termVars, afterTerm, progVars, execLog,
                   cancelHist>>

\* faulty variant: export_completed is emitted before the last progress notification
Final_swapped ==
    /\ wpc = "final"
    /\ progTask' = NumTasks /\ progPct' = 100
    /\ afterTerm' = TRUE
    /\ EmitTerminal("completed", "none")
    /\ reportedCount' = completed
    /\ wpc' = "done"
    /\ UNCHANGED <<svcWorker, svcFfmpeg, envFfmpeg, pendingCap, widgetVars, sessHist, uiPc, reqResult, reqDirMade,
                   wFields, wCancelled, wLocals, fsVars, execLog, cancelHist>>

\* progress_updated.emit(100, ...); export_completed.emit(f"成功导出 {completed} ...")
Final ==
    /\ wpc = "final"
    /\ EmitProgress(NumTasks, 100)
    /\ EmitTerminal("completed", "none")
    /\ reportedCount' = completed
    /\ wpc' = "done"
    /\ UNCHANGED <<svcWorker, svcFfmpeg, envFfmpeg, pendingCap, widgetVars, sessHist, uiPc, reqResult, reqDirMade,
                   wFields, wCancelled, wLocals, fsVars, execLog, cancelHist>>

\* run() has returned: the thread finishes and isRunning() becomes false
ThreadExit ==
    /\ wpc = "done"
    /\ wpc' = "idle"
    /\ ti' = 0 /\ completed' = 0
    /\ UNCHANGED <<svcVars, widgetVars, sessHist, wFields, wCancelled, y, x, frame_index, total_frames,
                   exc, fsVars, termVars,
                   afterTerm, progVars, execLog, cancelHist>>

\* ------------------------------------------------------- specifications
Next ==
    \/ ExportLogo
    \/ ExportOverlay
    \/ ExportDisplay
    \/ ExportVideo
    \/ OperatorExport
    \/ GuiExportDisplay
    \/ Cancel
    \/ DeliverTerminal
    \/ CleanupWorker
    \/ RunStart
    \/ CancelledBetweenTasks
    \/ ImageTaskStart
    \/ RowCheck
    \/ PixelWrite
    \/ VideoTaskStart
    \/ FrameCheck
    \/ FrameWrite
    \/ EncodeStart
    \/ EncoderExit
    \/ VideoFinally
    \/ TaskExcept
    \/ Manifest
    \/ Final
    \/ ThreadExit

Spec == Init /\ [][Next]_vars

\* the same service without an encoder in reach (video requests are refused),
\* where a request may be made while one more notification waits
RaceInit ==
    /\ PipelineInit /\ ~envFfmpeg /\ pendingCap = MaxPending + 1
    /\ CodecOff /\ ImagePreviewInit /\ UiInit /\ AssetInit /\ FramesOff

\* without an encoder no video task is ever queued, so the steps of
\* _generate_video are left out of the next-state relation
RaceNext ==
    \/ ExportLogo
    \/ ExportOverlay
    \/ ExportDisplay
    \/ ExportVideo
    \/ OperatorExport
    \/ GuiExportDisplay
    \/ Cancel
    \/ DeliverTerminal
    \/ CleanupWorker
    \/ RunStart
    \/ CancelledBetweenTasks
    \/ ImageTaskStart
    \/ RowCheck
    \/ PixelWrite
    \/ TaskExcept
    \/ Manifest
    \/ Final
    \/ ThreadExit

SpecRace == RaceInit /\ [][RaceNext]_vars

\* one step of the worker thread: run() from its first statement to the thread's
\* end.  Every statement returns, the encoder process included.
WorkerStep ==
    \/ RunStart
    \/ CancelledBetweenTasks
    \/ ImageTaskStart
    \/ RowCheck
    \/ PixelWrite
    \/ VideoTaskStart
    \/ FrameCheck
    \/ FrameWrite
    \/ EncodeStart
    \/ EncoderExit
    \/ VideoFinally
    \/ TaskExcept
    \/ Manifest
    \/ Final
    \/ ThreadExit

\* a call of export_all, directly or through a wrapper
RequestCall ==
    \/ ExportLogo
    \/ ExportOverlay
    \/ ExportDisplay
    \/ ExportVideo
    \/ OperatorExport
    \/ GuiExportDisplay

\* the started thread keeps running until run() returns; the UI thread's event
\* loop delivers a queued notification; wait() returns once the thread has ended.
\* Nothing obliges the user to request or to cancel.
LiveInit ==
    /\ PipelineInit /\ pendingCap = MaxPending + 1
    /\ CodecOff /\ ImagePreviewInit /\ UiInit /\ AssetInit /\ FramesOff

\* sessions of one asset (the wrappers and the display export of the GUI); a
\* session of several tasks repeats the same steps task after task
LiveNext ==
    \/ ExportLogo
    \/ ExportOverlay
    \/ ExportDisplay
    \/ ExportVideo
    \/ GuiExportDisplay
    \/ Cancel
    \/ DeliverTerminal
    \/ CleanupWorker
    \/ WorkerStep

SpecLive ==
    /\ LiveInit /\ [][LiveNext]_vars
    /\ WF_vars(WorkerStep)
    /\ WF_vars(DeliverTerminal)
    /\ WF_vars(CleanupWorker)

\* ------------------------------------------------------- .argb codec
\* ExportWorker._generate_logo and _generate_overlay_display as functions of the
\* bitmap: rows are numbered 1..h and columns 1..w here (0..h-1, 0..w-1 in the
\* source).
Pixels4 == {<<10, 20, 30, 40>>, <<50, 60, 70, 0>>, <<90, 100, 110, 255>>}
Pixels3 == {<<10, 20, 30>>, <<50, 60, 70>>, <<90, 100, 110>>}

Bitmaps ==
    UNION {[1..h -> [1..w -> px]] : h \in 1..MatH, w \in 1..MatW,
                                    px \in {Pixels3, Pixels4}}

Height(m) == Len(m)
Width(m) == Len(m[1])
Channels(m) == Len(m[1][1])

\* cv2.rotate(mat, cv2.ROTATE_180)
rotate180(m) ==
    [yy \in 1..Height(m) |->
        [xx \in 1..Width(m) |-> m[Height(m) + 1 - yy][Width(m) + 1 - xx]]]

\* mat[::-1, :, :]
flip_rows(m) == [yy \in 1..Height(m) |-> m[Height(m) + 1 - yy]]

\* mat.astype(np.uint8)
astype_uint8(m) ==
    [yy \in 1..Height(m) |->
        [xx \in 1..Width(m) |->
            [ch \in 1..Channels(m) |-> m[yy][xx][ch] % 256]]]

\* the bytes of a file written row by row, pixel by pixel, from the four
\* packed bytes of every pixel
WriteRows(packed) ==
    [i \in 1..(Height(packed) * Width(packed) * 4) |->
        LET p == (i - 1) \div 4
        IN  packed[(p \div Width(packed)) + 1][(p % Width(packed)) + 1][((i - 1) % 4) + 1]]

\* b, g, r = mat[y, x][:3]; struct.pack("BBBB", b, g, r, 255)
PackLogo(pixel) == <<pixel[1], pixel[2], pixel[3], 255>>

\* faulty variant: the alpha channel of the bitmap is dropped
PackOverlay_opaque(pixel) == <<pixel[1], pixel[2], pixel[3], 255>>

\* if c == 4: b, g, r, a = mat[y, x]  else: b, g, r = mat[y, x][:3]; a = 255
PackOverlay(pixel) ==
    IF Len(pixel) = 4 THEN <<pixel[1], pixel[2], pixel[3], pixel[4]>>
                      ELSE <<pixel[1], pixel[2], pixel[3], 255>>

\* faulty variant: the vertical flip after the rotation is left out
LogoBytes_noflip(m) ==
    LET t == astype_uint8(rotate180(m))
    IN  WriteRows([yy \in 1..Height(t) |-> [xx \in 1..Width(t) |-> PackLogo(t[yy][xx])]])

\* _generate_logo: rotate by 180 degrees, flip vertically, write
LogoBytes(m) ==
    LET t == astype_uint8(flip_rows(rotate180(m)))
    IN  WriteRows([yy \in 1..Height(t) |-> [xx \in 1..Width(t) |-> PackLogo(t[yy][xx])]])

\* _generate_overlay_display: rotate by 180 degrees, write
OverlayBytes(m) ==
    LET t == astype_uint8(rotate180(m))
    IN  WriteRows([yy \in 1..Height(t) |-> [xx \in 1..Width(t) |-> PackOverlay(t[yy][xx])]])

CodecInit ==
    /\ PipelineInit /\ ~envFfmpeg /\ pendingCap = MaxPending
    /\ mat \in Bitmaps /\ result_file = <<>> /\ codec = "none"
    /\ ImagePreviewInit /\ UiInit /\ AssetInit /\ FramesOff

GenerateLogo ==
    /\ codec = "none"
    /\ result_file' = LogoBytes(mat)
    /\ codec' = "logo"
    /\ UNCHANGED <<pipeVars, mat, imageVars, uiVars, assetVars, frameVars, dirVars>>

GenerateOverlayDisplay ==
    /\ codec = "none"
    /\ result_file' = OverlayBytes(mat)
    /\ codec' = "overlay"
    /\ UNCHANGED <<pipeVars, mat, imageVars, uiVars, assetVars, frameVars, dirVars>>

CodecNext ==
    \/ GenerateLogo
    \/ GenerateOverlayDisplay

SpecCodec == CodecInit /\ [][CodecNext]_vars

\* ------------------------------------------------- ImagePreviewWidget
\* A bitmap is a sequence of rows, a row a sequence of runs of pixels: n pixels
\* of one colour (kind "colour", bgra), or n consecutive pixels of the scaled
\* source starting at its row `row`, column `col` (kind "src"). Rows and
\* columns of the scaled source are numbered from 1; offsets into a bitmap
\* (top, left) count from 0 as in the source.
SourceSizes ==
    {[w |-> 100, h |-> 50], [w |-> 50, h |-> 100], [w |-> 256, h |-> 256],
     [w |-> 300, h |-> 300], [w |-> 10, h |-> 10], [w |-> 512, h |-> 100],
     [w |-> 360, h |-> 640], [w |-> 720, h |-> 1280], [w |-> 360, h |-> 700],
     [w |-> 360, h |-> 100], [w |-> 1000, h |-> 1], [w |-> 90, h |-> 200],
     [w |-> 11, h |-> 4]}
\* 0xFFFFFFFF, 0xFF102030, 0x80FF0000
BackgroundColors == {<<65535, 65535>>, <<65296, 8240>>, <<33023, 0>>}
PreviewModes == {"logo", "overlay", "display"}

Colour(bgra) == [kind |-> "colour", row |-> 0, col |-> 0, bgra |-> bgra]
SrcPixels(r, c) == [kind |-> "src", row |-> r, col |-> c, bgra |-> <<>>]
Run(n, what) == [n |-> n, what |-> what]

\* the run that starts k pixels further right
Shift(what, k) == IF what.kind = "src" THEN [what EXCEPT !.col = @ + k] ELSE what

RECURSIVE TakeCols(_, _)
\* row[:k]
TakeCols(row, k) ==
    IF k <= 0 \/ row = <<>> THEN <<>>
    ELSE IF Head(row).n <= k
      THEN <<Head(row)>> \o TakeCols(Tail(row), k - Head(row).n)
    ELSE <<Run(k, Head(row).what)>>

RECURSIVE DropCols(_, _)
\* row[k:]
DropCols(row, k) ==
    IF row = <<>> THEN <<>>
    ELSE IF k <= 0 THEN row
    ELSE IF Head(row).n <= k THEN DropCols(Tail(row), k - Head(row).n)
    ELSE <<Run(Head(row).n - k, Shift(Head(row).what, k))>> \o Tail(row)

RECURSIVE RowWidth(_)
RowWidth(row) == IF row = <<>> THEN 0 ELSE Head(row).n + RowWidth(Tail(row))

RECURSIVE Canonical(_)
\* the same pixels with empty runs dropped and adjoining runs merged
Canonical(row) ==
    IF row = <<>> THEN <<>>
    ELSE IF Head(row).n = 0 THEN Canonical(Tail(row))
    ELSE LET rest == Canonical(Tail(row))
         IN  IF rest # <<>> /\ Shift(Head(row).what, Head(row).n) = Head(rest).what
               THEN <<Run(Head(row).n + Head(rest).n, Head(row).what)>> \o Tail(rest)
               ELSE <<Head(row)>> \o rest

\* np.zeros((h, w, 4)), or a canvas with every pixel set to one colour
Filled(h, w, bgra) == [yy \in 1..h |-> <<Run(w, Colour(bgra))>>]

\* cv2.resize(image, (new_w, new_h)) followed by the conversion to BGRA
Resized(new_w, new_h) == [yy \in 1..new_h |-> <<Run(new_w, SrcPixels(yy, 1))>>]

\* img[top:top+h, left:left+w] = sub  with h, w the shape of sub
SetBlock(img, top, left, sub) ==
    [yy \in 1..Len(img) |->
        IF yy > top /\ yy <= top + Len(sub)
          THEN TakeCols(img[yy], left) \o sub[yy - top]
                   \o DropCols(img[yy], left + RowWidth(sub[yy - top]))
          ELSE img[yy]]

\* img[:th, :tw, :]
Crop(img, th, tw) ==
    [yy \in 1..(IF Len(img) < th THEN Len(img) ELSE th) |-> TakeCols(img[yy], tw)]

Max2(a, b) == IF a >= b THEN a ELSE b

\* _parse_argb_color, returned in the order the canvas is filled: b, g, r, a
ParseArgb(argb_int) ==
    <<argb_int[2] % 256, (argb_int[2] \div 256) % 256, argb_int[1] % 256,
      (argb_int[1] \div 256) % 256>>

\* int(v * min(LOGO_WIDTH / img_w, LOGO_HEIGHT / img_h)); the float result agrees
\* with this quotient for every size of SourceSizes
LogoScaled(v, img_w, img_h) == (v * LOGO_WIDTH) \div Max2(img_w, img_h)

\* int(img_h * (tw / img_w)); the float result agrees for SourceSizes
WidthScaled(img_h, img_w, tw) == (img_h * tw) \div img_w

\* cv2.resize raises for an empty destination size
ResizeRaises(new_w, new_h) == new_w < 1 \/ new_h < 1

\* _process_logo
process_logo(image, argb_int) ==
    LET new_w == LogoScaled(image.w, image.w, image.h)
        new_h == LogoScaled(image.h, image.w, image.h)
        sx == (LOGO_WIDTH - new_w) \div 2
        sy == (LOGO_HEIGHT - new_h) \div 2
        logo_full == SetBlock(Filled(LOGO_HEIGHT, LOGO_WIDTH, <<0, 0, 0, 0>>),
                              sy, sx, Resized(new_w, new_h))
        lx == (SCREEN_WIDTH \div 2) - (LOGO_WIDTH \div 2)
        ly == (SCREEN_HEIGHT \div 2) - (LOGO_HEIGHT \div 2)
    IN  SetBlock(Filled(SCREEN_HEIGHT, SCREEN_WIDTH, ParseArgb(argb_int)), ly, lx, logo_full)

\* faulty variant: the transparent rows are stacked below the image
PadRows_below(img, th, tw) ==
    IF Len(img) < th THEN img \o Filled(th - Len(img), tw, <<0, 0, 0, 0>>) ELSE img

\* if resized.shape[0] < th: np.vstack([padding, resized])
PadRows(img, th, tw) ==
    IF Len(img) < th THEN Filled(th - Len(img), tw, <<0, 0, 0, 0>>) \o img ELSE img

\* if resized.shape[1] < tw: np.hstack([resized, padding])
PadCols(img, th, tw) ==
    [yy \in 1..Len(img) |->
        IF RowWidth(img[yy]) < tw
          THEN img[yy] \o <<Run(tw - RowWidth(img[yy]), Colour(<<0, 0, 0, 0>>))>>
          ELSE img[yy]]

\* _process_overlay_or_display
process_overlay_or_display(image, tw, th) ==
    PadCols(PadRows(Crop(Resized(tw, WidthScaled(image.h, image.w, tw)), th, tw),
                    th, tw), th, tw)

\* the resize inside the transform of `mode` raises for this bitmap
ProcessRaises(image, mode) ==
    IF mode = "logo"
      THEN ResizeRaises(LogoScaled(image.w, image.w, image.h),
                        LogoScaled(image.h, image.w, image.h))
      ELSE ResizeRaises(SCREEN_WIDTH, WidthScaled(image.h, image.w, SCREEN_WIDTH))

\* _update_preview, as far as _processed_image goes; an exception of the
\* transform leaves the field as it was
update_preview(image, mode, argb_int) ==
    IF image = NoImage \/ ProcessRaises(image, mode)
      THEN UNCHANGED processed_image
    ELSE IF mode = "logo"
      THEN processed_image' = process_logo(image, argb_int)
    ELSE processed_image' = process_overlay_or_display(image, SCREEN_WIDTH,
                                                      SCREEN_HEIGHT)

\* load_image(path) for a readable file
LoadImage ==
    \E image \in SourceSizes :
        /\ original_image' = image
        /\ update_preview(image, preview_mode, background_color)
        /\ UNCHANGED <<preview_mode, background_color, pipeVars, codecVars, uiVars, assetVars, frameVars, dirVars>>

\* set_preview_mode(mode)
SetPreviewMode ==
    \E mode \in PreviewModes :
        /\ mode # preview_mode
        /\ preview_mode' = mode
        /\ update_preview(original_image, mode, background_color)
        /\ UNCHANGED <<original_image, background_color, pipeVars, codecVars, uiVars, assetVars, frameVars, dirVars>>

\* set_background_color(argb_int)
SetBackgroundColor ==
    \E argb_int \in BackgroundColors :
        /\ background_color' = argb_int
        /\ IF preview_mode = "logo"
             THEN update_preview(original_image, preview_mode, argb_int)
             ELSE UNCHANGED processed_image
        /\ UNCHANGED <<original_image, preview_mode, pipeVars, codecVars, uiVars, assetVars, frameVars, dirVars>>

\* clear()
ClearImage ==
    /\ original_image' = NoImage
    /\ processed_image' = <<>>
    /\ UNCHANGED <<preview_mode, background_color, pipeVars, codecVars, uiVars, assetVars, frameVars, dirVars>>

ImageInit ==
    /\ PipelineInit /\ ~envFfmpeg /\ pendingCap = MaxPending /\ CodecOff /\ ImagePreviewInit /\ UiInit
    /\ AssetInit /\ FramesOff

ImageNext ==
    \/ LoadImage
    \/ SetPreviewMode
    \/ SetBackgroundColor
    \/ ClearImage

SpecImage == ImageInit /\ [][ImageNext]_vars

\* ------------------------------- video preview, timeline, export parameters
\* the video files a user can choose; every one of them opens
Videos ==
    {[frames |-> 3, w |-> 100, h |-> 180], [frames |-> 1, w |-> 120, h |-> 200],
     [frames |-> 2, w |-> 80, h |-> 100]}
\* mouse travel of a drag, in video pixels
DragDeltas == {-20, 0, 20}
DragModes == {"move", "tl", "tr", "bl", "br"}
CropKeys == {"W", "S", "A", "D", "Y", "U"}
\* arguments of set_cropbox
CropboxArgs == {<<0, 0, 360, 640>>, <<-5, -5, 50, 50>>, <<1000, 1000, 1000, 1000>>}

\* int() of a quotient: rounds towards zero
TruncDiv(a, b) == IF a >= 0 THEN a \div b ELSE -((-a) \div b)
\* int(w / TARGET_ASPECT_RATIO)
AspectHeight(w) == TruncDiv(w * TARGET_HEIGHT, TARGET_WIDTH)
\* int(h * TARGET_ASPECT_RATIO)
AspectWidth(h) == TruncDiv(h * TARGET_WIDTH, TARGET_HEIGHT)

Min2(a, b) == IF a <= b THEN a ELSE b

\* max(0, min(v, total - 1))
ClampFrame(v, total) == Max2(0, Min2(v, total - 1))

\* _init_cropbox
init_cropbox(v) ==
    LET w1 == IF TARGET_WIDTH > v.w THEN v.w ELSE TARGET_WIDTH
        h1 == IF TARGET_WIDTH > v.w THEN AspectHeight(w1) ELSE TARGET_HEIGHT
        h2 == IF h1 > v.h THEN v.h ELSE h1
        w2 == IF h1 > v.h THEN AspectWidth(h2) ELSE w1
    IN  <<(v.w - w2) \div 2, (v.h - h2) \div 2, w2, h2>>

\* _bound_cropbox
bound_cropbox(cb, v) ==
    LET w1 == IF cb[3] > v.w THEN v.w ELSE cb[3]
        h1 == IF cb[3] > v.w THEN AspectHeight(w1) ELSE cb[4]
        h2 == IF h1 > v.h THEN v.h ELSE h1
        w2 == IF h1 > v.h THEN AspectWidth(h2) ELSE w1
        w3 == Max2(w2, MinCropWidth)
        h3 == Max2(h2, AspectHeight(MinCropWidth))
    IN  <<Max2(0, Min2(cb[1], v.w - w3)), Max2(0, Min2(cb[2], v.h - h3)), w3, h3>>

\* the step hands no record to export_all
NoExport == loop_video_params' = NoParams /\ intro_video_params' = NoParams

\* self.cropbox = cb; _bound_cropbox(); _emit_cropbox_changed() and its slot
\* _on_cropbox_changed
SetAndBound(cb) ==
    /\ cropbox' = bound_cropbox(cb, video)
    /\ crop_rect' = cropbox'

\* load_video(path), then the video_loaded slot _on_video_loaded:
\* set_total_frames(count), set_in_point(0), set_out_point(count - 1)
load_video(v) ==
    /\ video' = v
    /\ current_frame_index' = 0
    /\ cropbox' = init_cropbox(v)
    /\ crop_rect' = cropbox'
    /\ tl_total_frames' = Max2(1, v.frames)
    /\ LET out1 == IF out_point > tl_total_frames' THEN tl_total_frames'
                                                   ELSE out_point
           \* set_in_point(0)
           in2 == ClampFrame(0, tl_total_frames')
           out2 == IF in2 > out1 THEN in2 ELSE out1
           \* set_out_point(count - 1)
           out3 == ClampFrame(v.frames - 1, tl_total_frames')
           in3 == IF out3 < in2 THEN out3 ELSE in2
       IN  in_point' = in3 /\ out_point' = out3
    /\ range_touched' = FALSE

\* _on_loop_video_selected: the panel keeps the path, the preview loads the file
LoopVideoSelected ==
    \E v \in Videos :
        /\ loop_video_path' = v
        /\ load_video(v)
        /\ NoExport
        /\ UNCHANGED <<intro_video_path, pipeVars, codecVars, imageVars, assetVars, frameVars, dirVars>>

\* _on_intro_video_selected: the panel keeps the path, nothing is loaded
IntroVideoSelected ==
    \E v \in Videos :
        /\ intro_video_path' = v
        /\ NoExport
        /\ UNCHANGED <<previewVars, timelineVars, crop_rect, loop_video_path,
                       pipeVars, codecVars, imageVars, assetVars, frameVars, dirVars>>

\* _on_video_opened (File > Open video): the preview loads the file
VideoOpened ==
    \E v \in Videos :
        /\ load_video(v)
        /\ NoExport
        /\ UNCHANGED <<panelVars, pipeVars, codecVars, imageVars, assetVars, frameVars, dirVars>>

\* next_frame, prev_frame, seek_to_frame(index)
SeekFrame ==
    /\ video # NoVideo
    /\ \E index \in {current_frame_index - 1, current_frame_index + 1}
                   \cup 0..(tl_total_frames - 1) :
          current_frame_index' = ClampFrame(index, video.frames)
    /\ NoExport
    /\ UNCHANGED <<video, cropbox, timelineVars, crop_rect, panelVars, pipeVars,
                   codecVars, imageVars, assetVars, frameVars, dirVars>>

\* _on_set_in_point: TimelineSlider.set_in_point(current frame)
SetInPoint ==
    /\ in_point' = ClampFrame(current_frame_index, tl_total_frames)
    /\ out_point' = (IF in_point' > out_point THEN in_point' ELSE out_point)
    /\ range_touched' = TRUE
    /\ NoExport
    /\ UNCHANGED <<previewVars, tl_total_frames, crop_rect, panelVars, pipeVars,
                   codecVars, imageVars, assetVars, frameVars, dirVars>>

\* _on_set_out_point: TimelineSlider.set_out_point(current frame)
SetOutPoint ==
    /\ out_point' = ClampFrame(current_frame_index, tl_total_frames)
    /\ in_point' = (IF out_point' < in_point THEN out_point' ELSE in_point)
    /\ range_touched' = TRUE
    /\ NoExport
    /\ UNCHANGED <<previewVars, tl_total_frames, crop_rect, panelVars, pipeVars,
                   codecVars, imageVars, assetVars, frameVars, dirVars>>

\* keyPressEvent for W, S, A, D, Y, U
CropKey ==
    /\ video # NoVideo
    /\ \E key \in CropKeys :
          SetAndBound(
            CASE key = "W" -> [cropbox EXCEPT ![2] = @ - KeyStep]
              [] key = "S" -> [cropbox EXCEPT ![2] = @ + KeyStep]
              [] key = "A" -> [cropbox EXCEPT ![1] = @ - KeyStep]
              [] key = "D" -> [cropbox EXCEPT ![1] = @ + KeyStep]
              [] key = "Y" -> <<cropbox[1], cropbox[2], cropbox[3] - KeyStep,
                                AspectHeight(cropbox[3] - KeyStep)>>
              [] OTHER -> <<cropbox[1], cropbox[2], cropbox[3] + KeyStep,
                            AspectHeight(cropbox[3] + KeyStep)>>)
    /\ NoExport
    /\ UNCHANGED <<video, current_frame_index, timelineVars, panelVars, pipeVars,
                   codecVars, imageVars, assetVars, frameVars, dirVars>>

\* mousePressEvent on the crop box or a handle, one mouseMoveEvent, release:
\* every move sets the box from the box at press time and the mouse travel
CropDrag ==
    /\ video # NoVideo
    /\ \E mode \in DragModes, dx \in DragDeltas, dy \in DragDeltas :
          LET sx == cropbox[1]
              sy == cropbox[2]
              sw == cropbox[3]
              sh == cropbox[4]
              new_w == IF mode \in {"br", "tr"} THEN sw + dx ELSE sw - dx
              new_h == AspectHeight(new_w)
          IN  SetAndBound(
                CASE mode = "move" -> <<sx + dx, sy + dy, sw, sh>>
                  [] mode = "br" -> <<sx, sy, new_w, new_h>>
                  [] mode = "tl" -> <<sx + (sw - new_w), sy + (sh - new_h), new_w, new_h>>
                  [] mode = "tr" -> <<sx, sy + (sh - new_h), new_w, new_h>>
                  [] OTHER -> <<sx + (sw - new_w), sy, new_w, new_h>>)
    /\ NoExport
    /\ UNCHANGED <<video, current_frame_index, timelineVars, panelVars, pipeVars,
                   codecVars, imageVars, assetVars, frameVars, dirVars>>

\* set_cropbox(x, y, w, h)
SetCropbox ==
    /\ \E cb \in CropboxArgs : SetAndBound(cb)
    /\ NoExport
    /\ UNCHANGED <<video, current_frame_index, timelineVars, panelVars, pipeVars,
                   codecVars, imageVars, assetVars, frameVars, dirVars>>

\* _export_operator_assets with an operator name entered and a loop video
\* chosen: the VideoExportParams records it builds for export_all
BuildExportParams ==
    /\ loop_video_path # NoVideo
    /\ loop_video_params' = [src |-> loop_video_path, cropbox |-> crop_rect,
                             start_frame |-> in_point, end_frame |-> out_point]
    /\ intro_video_params' =
          (IF intro_video_path # NoVideo
             THEN [src |-> intro_video_path, cropbox |-> crop_rect,
                   start_frame |-> in_point, end_frame |-> out_point]
             ELSE NoParams)
    /\ UNCHANGED <<previewVars, timelineVars, crop_rect, panelVars, pipeVars,
                   codecVars, imageVars, assetVars, frameVars, dirVars>>

UiSpecInit ==
    /\ PipelineInit /\ ~envFfmpeg /\ pendingCap = MaxPending /\ CodecOff /\ ImagePreviewInit /\ UiInit
    /\ AssetInit /\ FramesOff

UiNext ==
    \/ LoopVideoSelected
    \/ IntroVideoSelected
    \/ VideoOpened
    \/ SeekFrame
    \/ SetInPoint
    \/ SetOutPoint
    \/ CropKey
    \/ CropDrag
    \/ SetCropbox
    \/ BuildExportParams

SpecUi == UiSpecInit /\ [][UiNext]_vars

\* ------------------------------------- images of an operator export
\* the image files a user can choose: every one of them loads and its
\* transforms do not raise
AssetSources == {[w |-> 100, h |-> 50], [w |-> 50, h |-> 100], [w |-> 360, h |-> 700]}

\* the value _update_preview leaves in _processed_image
Processed(image, mode, argb_int, old) ==
    IF image = NoImage THEN old
    ELSE IF mode = "logo" THEN process_logo(image, argb_int)
    ELSE process_overlay_or_display(image, SCREEN_WIDTH, SCREEN_HEIGHT)

\* set_preview_mode(mode) followed by load_image(path)
ModeThenLoad(mode, image) ==
    /\ preview_mode' = mode
    /\ original_image' = image
    /\ processed_image' = Processed(image, mode, background_color, processed_image)

NoAssets == logo_mat' = <<>> /\ overlay_mat' = <<>>

\* the logo selector emits file_selected: _on_logo_image_selected
LogoImageSelected ==
    \E image \in AssetSources :
        /\ logo_image_path' = image
        /\ ModeThenLoad("logo", image)
        /\ NoAssets
        /\ UNCHANGED <<background_color, current_mode, overlay_image_path,
                       pipeVars, codecVars, uiVars, frameVars, dirVars>>

\* the overlay selector emits file_selected: _on_overlay_image_selected
OverlayImageSelected ==
    \E image \in AssetSources :
        /\ overlay_image_path' = image
        /\ ModeThenLoad("overlay", image)
        /\ NoAssets
        /\ UNCHANGED <<background_color, current_mode, logo_image_path,
                       pipeVars, codecVars, uiVars, frameVars, dirVars>>

\* _on_image_opened (File > Open image)
ImageOpened ==
    \E image \in AssetSources :
        /\ ModeThenLoad(IF current_mode = 0 THEN "logo" ELSE "display", image)
        /\ NoAssets
        /\ UNCHANGED <<background_color, current_mode, logo_image_path,
                       overlay_image_path, pipeVars, codecVars, uiVars, frameVars, dirVars>>

\* _on_mode_changed(index)
ModeChanged ==
    \E index \in {0, 1} :
        /\ current_mode' = index
        /\ IF index # 0 /\ preview_mode # "display"
             THEN /\ preview_mode' = "display"
                  /\ processed_image' = Processed(original_image, "display",
                                                  background_color, processed_image)
             ELSE UNCHANGED <<preview_mode, processed_image>>
        /\ NoAssets
        /\ UNCHANGED <<original_image, background_color, logo_image_path,
                       overlay_image_path, pipeVars, codecVars, uiVars, frameVars, dirVars>>

\* _on_background_color_changed(argb)
BackgroundColorChanged ==
    \E argb_int \in BackgroundColors :
        /\ background_color' = argb_int
        /\ processed_image' =
              (IF preview_mode = "logo"
                 THEN Processed(original_image, "logo", argb_int, processed_image)
                 ELSE processed_image)
        /\ NoAssets
        /\ UNCHANGED <<original_image, preview_mode, current_mode, logo_image_path,
                       overlay_image_path, pipeVars, codecVars, uiVars, frameVars, dirVars>>

\* _on_export_requested in operator mode: the logo_mat and overlay_mat
\* arguments _export_operator_assets passes to export_all
BuildExportImages ==
    /\ current_mode = 0
    /\ logo_mat' = (IF logo_image_path # NoImage THEN processed_image ELSE <<>>)
    /\ overlay_mat' = (IF overlay_image_path # NoImage THEN processed_image ELSE <<>>)
    /\ UNCHANGED <<imageVars, current_mode, logo_image_path, overlay_image_path,
                   pipeVars, codecVars, uiVars, frameVars, dirVars>>

AssetNext ==
    \/ LogoImageSelected
    \/ OverlayImageSelected
    \/ ImageOpened
    \/ ModeChanged
    \/ BackgroundColorChanged
    \/ BuildExportImages

SpecAssets == ImageInit /\ [][AssetNext]_vars

\* ------------------------------------------- TimelineSlider on its own
\* arguments of set_total_frames, and of set_in_point and set_out_point
CountArgs == {-1, 0, 1, 5, 8, 100, 300}
FrameArgs == {-3, 0, 1, 4, 7, 99, 100, 250}

\* TimelineSlider.set_total_frames(count)
set_total_frames ==
    \E count \in CountArgs :
        /\ tl_total_frames' = Max2(1, count)
        /\ out_point' = (IF out_point > tl_total_frames' THEN tl_total_frames'
                                                         ELSE out_point)
        /\ UNCHANGED <<in_point, range_touched, previewVars, crop_rect, panelVars, paramVars,
                       pipeVars, codecVars, imageVars, assetVars, frameVars, dirVars>>

\* TimelineSlider.set_in_point(frame)
set_in_point ==
    \E frame \in FrameArgs :
        /\ in_point' = Max2(0, Min2(frame, tl_total_frames - 1))
        /\ out_point' = (IF in_point' > out_point THEN in_point' ELSE out_point)
        /\ range_touched' = TRUE
        /\ UNCHANGED <<tl_total_frames, previewVars, crop_rect, panelVars,
                       paramVars, pipeVars, codecVars, imageVars, assetVars, frameVars, dirVars>>

\* TimelineSlider.set_out_point(frame)
set_out_point ==
    \E frame \in FrameArgs :
        /\ out_point' = Max2(0, Min2(frame, tl_total_frames - 1))
        /\ in_point' = (IF out_point' < in_point THEN out_point' ELSE in_point)
        /\ range_touched' = TRUE
        /\ UNCHANGED <<tl_total_frames, previewVars, crop_rect, panelVars,
                       paramVars, pipeVars, codecVars, imageVars, assetVars, frameVars, dirVars>>

TimelineNext == set_total_frames \/ set_in_point \/ set_out_point

SpecTimeline == UiSpecInit /\ [][TimelineNext]_vars

\* ------------------------------------- _generate_video, frame by frame
\* the video files behind params.video_path, and the params of a task
FrameVideos == {[frames |-> n, w |-> 3, h |-> 2] : n \in 1..MaxSrcFrames}
FrameCrops == {<<0, 0, 3, 2>>, <<1, 0, 2, 2>>, <<1, 1, 2, 1>>, <<2, 1, 5, 5>>,
               <<3, 0, 1, 1>>}
FrameParams(v) ==
    {[cropbox |-> cb, start_frame |-> s, end_frame |-> e] :
        cb \in FrameCrops, s \in 0..v.frames, e \in 0..(v.frames + 1)}

\* the frame cap.read() decodes at position f: every pixel stands for itself
\* as <<frame, row, column>>, rows and columns counted from 1
DecodedFrame(v, f) == [yy \in 1..v.h |-> [xx \in 1..v.w |-> <<f, yy, xx>>]]

\* frame[y:y+h, x:x+w] for non-negative x, y: the slice ends at the array's edge
CropFrame(m, cb) ==
    LET rows == SubSeq(m, cb[2] + 1, Min2(cb[2] + cb[4], Len(m)))
    IN  [yy \in 1..Len(rows) |->
            SubSeq(rows[yy], cb[1] + 1, Min2(cb[1] + cb[3], Len(rows[yy])))]

\* the crop has no pixel: cv2.rotate / cv2.resize raise
EmptyFrame(m) == m = <<>> \/ m[1] = <<>>

\* cv2.resize(frame, (SCREEN_WIDTH, SCREEN_HEIGHT)): SCREEN_HEIGHT rows of
\* SCREEN_WIDTH pixels interpolated from the bitmap `image`
ResizedFrame(m) ==
    [height |-> SCREEN_HEIGHT, row |-> <<[n |-> SCREEN_WIDTH, what |-> "image"]>>,
     image |-> m]

\* faulty variant: np.hstack([frame, padding])
PadLeft_right(f) ==
    IF VIDEO_WIDTH - RowWidth(f.row) > 0
      THEN [f EXCEPT !.row = @ \o <<[n |-> VIDEO_WIDTH - RowWidth(f.row),
                                     what |-> "black"]>>]
      ELSE f

\* padding_width = VIDEO_WIDTH - frame.shape[1]; np.hstack([padding, frame])
PadLeft(f) ==
    IF VIDEO_WIDTH - RowWidth(f.row) > 0
      THEN [f EXCEPT !.row = <<[n |-> VIDEO_WIDTH - RowWidth(f.row),
                                what |-> "black"]>> \o @]
      ELSE f

\* crop, rotate, resize, pad
ProcessFrame(m, cb) == PadLeft(ResizedFrame(rotate180(CropFrame(m, cb))))

\* cv2.imwrite(frame_path, frame) with frame_path numbered `name`
WriteFrame(files, name, frame) ==
    [k \in (DOMAIN files) \cup {name} |-> IF k = name THEN frame ELSE files[k]]

\* the files ffmpeg reads for the pattern frame_%06d.png: number 0 and its
\* successors up to the first number missing
RECURSIVE SequenceFrom(_, _)
SequenceFrom(files, k) ==
    IF k \in DOMAIN files THEN <<files[k]>> \o SequenceFrom(files, k + 1) ELSE <<>>

\* _generate_video up to the loop: the capture is opened and positioned at
\* start_frame, temp_frames is new
FramesInit ==
    /\ PipelineInit /\ ~envFfmpeg /\ pendingCap = MaxPending /\ CodecOff /\ ImagePreviewInit /\ UiInit
    /\ AssetInit
    /\ src_video \in FrameVideos
    /\ vparams \in FrameParams(src_video)
    /\ cap_pos = vparams.start_frame
    /\ loop_index = 0
    /\ temp_files = <<>> /\ encoder_input = <<>>
    /\ vpc = "loop"
    /\ DirEmpty

\* one turn of the loop with the cancellation flag clear: read, and either
\* stop at a failed read, raise on an empty crop, or write the frame
FrameTurn ==
    /\ vpc = "loop"
    /\ loop_index < vparams.end_frame - vparams.start_frame
    /\ IF cap_pos >= src_video.frames
         THEN /\ vpc' = "encode"
              /\ UNCHANGED <<cap_pos, loop_index, temp_files>>
       ELSE IF EmptyFrame(CropFrame(DecodedFrame(src_video, cap_pos), vparams.cropbox))
         THEN /\ vpc' = "raised"
              /\ cap_pos' = cap_pos + 1
              /\ UNCHANGED <<loop_index, temp_files>>
       ELSE /\ temp_files' = WriteFrame(temp_files, loop_index,
                                 ProcessFrame(DecodedFrame(src_video, cap_pos),
                                              vparams.cropbox))
            /\ cap_pos' = cap_pos + 1
            /\ loop_index' = loop_index + 1
            /\ vpc' = "loop"
    /\ UNCHANGED <<src_video, vparams, encoder_input, pipeVars, codecVars,
                   imageVars, uiVars, assetVars, dirVars>>

\* range(total_frames) is used up
LoopEnds ==
    /\ vpc = "loop"
    /\ loop_index >= vparams.end_frame - vparams.start_frame
    /\ vpc' = "encode"
    /\ UNCHANGED <<src_video, vparams, cap_pos, loop_index, temp_files,
                   encoder_input, pipeVars, codecVars, imageVars, uiVars, assetVars, dirVars>>

\* subprocess.run(ffmpeg_cmd): the encoder reads the numbered files
RunEncoder ==
    /\ vpc = "encode"
    /\ encoder_input' = SequenceFrom(temp_files, 0)
    /\ vpc' = "done"
    /\ UNCHANGED <<src_video, vparams, cap_pos, loop_index, temp_files,
                   pipeVars, codecVars, imageVars, uiVars, assetVars, dirVars>>

FramesNext == FrameTurn \/ LoopEnds \/ RunEncoder

SpecFrames == FramesInit /\ [][FramesNext]_vars

\* --------------------------- image files rewritten in one directory
\* the bitmaps handed to every session: one row, up to MatW pixels
RewriteBitmaps ==
    UNION {[1..1 -> [1..w -> px]] : w \in 1..MatW, px \in {Pixels3, Pixels4}}

\* faulty variant: open(result_path, "ab")
OpenWb_append(old) == old

\* open(result_path, "wb"): the file is created or truncated
OpenWb(old) == <<>>

RewriteInit ==
    /\ PipelineInit /\ ~envFfmpeg /\ pendingCap = MaxPending
    /\ mat \in RewriteBitmaps /\ result_file = <<>> /\ codec = "none"
    /\ ImagePreviewInit /\ UiInit /\ AssetInit /\ FramesOff

\* a LOGO task of a session runs to its end: _generate_logo on logo.argb
RewriteLogo ==
    /\ times_written["logo.argb"] < MaxWrites
    /\ out_files' = [out_files EXCEPT
                        !["logo.argb"] = OpenWb(@) \o LogoBytes(mat)]
    /\ times_written' = [times_written EXCEPT !["logo.argb"] = @ + 1]
    /\ result_file' = out_files'["logo.argb"]
    /\ codec' = "logo"
    /\ UNCHANGED <<pipeVars, mat, imageVars, uiVars, assetVars, frameVars>>

\* an OVERLAY or DISPLAY task of a session runs to its end:
\* _generate_overlay_display on overlay.argb or display.argb
RewriteOverlayDisplay ==
    \E name \in {"overlay.argb", "display.argb"} :
        /\ times_written[name] < MaxWrites
        /\ out_files' = [out_files EXCEPT ![name] = OpenWb(@) \o OverlayBytes(mat)]
        /\ times_written' = [times_written EXCEPT ![name] = @ + 1]
        /\ result_file' = out_files'[name]
        /\ codec' = "overlay"
        /\ UNCHANGED <<pipeVars, mat, imageVars, uiVars, assetVars, frameVars>>

RewriteNext == RewriteLogo \/ RewriteOverlayDisplay

SpecRewrite == RewriteInit /\ [][RewriteNext]_vars

\* ---------------------------------------------------------- properties
PixelsPerImage == ImgH * ImgW

\* the step creates and starts a worker
NewSessionStep == wpc = "idle" /\ wpc' = "run"

\* the step is an export request (export_all, a wrapper or a GUI entry point)
RequestStep == <<reqResult, reqDirMade>>' # <<reqResult, reqDirMade>>

\* the output file of task kind k has not been created or modified in the session
Untouched(k) == IF IsImage(k) THEN argb[k] = -1 ELSE mp4[k] = FALSE

\* the output file of task kind k has been written in full in the session
Written(k) == IF IsImage(k) THEN argb[k] = PixelsPerImage ELSE mp4[k] = TRUE

\* a task has raised and the exception is on its way to, or was handled by, run()
TaskRaised ==
    \/ wpc = "except"
    \/ wpc = "finally" /\ exc # "none"
    \/ wpc \in {"done", "idle"} /\ failMsg \in {"task_error", "task_cancelled"}

\* the service holds no worker only while no worker thread runs
TypeOK ==
    /\ svcWorker \in BOOLEAN /\ wCancelled \in BOOLEAN
    /\ (wpc # "idle") => svcWorker
    /\ Len(queue) <= pendingCap
    /\ ti \in 0..NumTasks

\* C1: an export request made while the worker of an earlier session is running
\* creates and starts no worker, is answered with the busy failure (export_video
\* with an unknown video type never reaches export_all and is answered with its
\* own failure), and leaves the in-flight worker, its task list, output
\* directory, manifest data, encoder path, cancellation flag and position alone.
C1_BusyRejected ==
    [][(svcWorker /\ isRunning /\ RequestStep) =>
          /\ reqResult' \in {"busy", "badtype"}
          /\ UNCHANGED <<svcWorker, wpc, wTasks, wOutDir, wEpconfig, wFfmpeg,
                         wCancelled, wLocals, fsVars, queue>>]_vars

C1_Witness ==
    /\ reqResult = "busy" /\ reqDirMade = OperatorDir
    /\ svcWorker /\ wpc = "fwrite" /\ wOutDir = ApiDir

\* C2: a session whose run() has been entered has published exactly one terminal
\* notification by the time run() returns, and none before it; never two, never
\* export_completed together with export_failed.
C2_OneTerminal ==
    /\ nCompleted + nFailed <= 1
    /\ (wpc \in {"done", "idle"} /\ wTasks # <<>>) => nCompleted + nFailed = 1
    /\ (wpc \notin {"done", "idle"}) => nCompleted + nFailed = 0

C2_Witness ==
    /\ wpc = "idle" /\ nCompleted = 0 /\ nFailed = 1 /\ failMsg = "task_error"
    /\ wCancelled /\ mp4["loop"]

\* C3 (the claim as stated): within a running session the task index carried by
\* successive progress notifications never decreases, and within one task the
\* percentage never decreases.
C3_ProgressMonotone ==
    [][(wpc # "idle") =>
          /\ progTask' >= progTask
          /\ (progTask' = progTask => progPct' >= progPct)]_vars

\* C4: after the worker has emitted its terminal notification it emits nothing
\* more for the session: run() is at its end or has returned.
C4_TerminalLast ==
    /\ ~afterTerm
    /\ TerminalEmitted => wpc \in {"done", "idle"}

C4_Witness ==
    /\ wpc = "done" /\ nCompleted = 1 /\ progTask = NumTasks /\ progPct = 100
    /\ NumTasks = 4

C6_CancelledSession ==
    cancelAt # "none" =>
        /\ nCompleted = 0
        /\ epconfigWrites = 0
        /\ wpc \in {"done", "idle"} =>
              /\ nFailed = 1
              /\ failMsg = (IF cancelAt = "between" THEN "cancelled"
                            ELSE "task_cancelled")
        /\ \A k \in 1..(Len(execLog) - (IF cancelAt = "between" THEN 0 ELSE 1)) :
              Written(wTasks[k])

C6_Witness ==
    /\ cancelAt = "frame" /\ wTasks = <<"logo", "loop">> /\ wpc = "idle"
    /\ argb["logo"] = PixelsPerImage /\ ~mp4["loop"]
    /\ wEpconfig # <<>> /\ epconfigWrites = 0 /\ nFailed = 1

\* C7: after task k has raised, no later task is started, no output file of a
\* later task is created or modified, the manifest is not written and the
\* session ends with export_failed and without export_completed.
C7_FailFast ==
    [][(TaskRaised /\ ~NewSessionStep) =>
          /\ \A k \in (Len(execLog) + 1)..NumTasks : Untouched(wTasks[k])
          /\ execLog' = execLog
          /\ argb' = argb /\ mp4' = mp4
          /\ epconfigWrites' = 0 /\ nCompleted' = 0
          /\ wpc' \in {"finally", "except", "done", "idle"}
          /\ (wpc' \in {"done", "idle"} => nFailed' = 1)]_vars

C7_Witness ==
    /\ wpc = "idle" /\ failMsg = "task_error" /\ ~wCancelled
    /\ wTasks = <<"logo", "overlay", "loop", "intro">>
    /\ execLog = <<0, 1>> /\ argb["logo"] = PixelsPerImage /\ Untouched("overlay")
    /\ Untouched("loop") /\ Untouched("intro") /\ epconfigWrites = 0

\* C8 (the claim as stated): a request rejected because no encoder can be
\* located has created no worker and no directory.
C8_RejectedBeforeIO ==
    reqResult = "noffmpeg" => (reqDirMade = NoDir /\ ~svcFfmpeg)

\* C9: tasks are started in list order, one at a time, each at most once, task k
\* only after tasks 0..k-1 have been executed and succeeded; a Completed session
\* has executed every task once and reports that many files.
C9_InOrderOnce ==
    /\ \A j \in 1..Len(execLog) : execLog[j] = j - 1
    /\ wpc \in {"loop", "final"} => (completed = ti /\ Len(execLog) = ti)
    /\ wpc \in {"row", "pix", "frame", "fwrite", "encode", "ffmpeg"} =>
          (completed = ti /\ Len(execLog) = ti + 1)
    /\ wpc \notin {"idle", "done"} => \A j \in 1..completed : Written(wTasks[j])
    /\ nCompleted = 1 =>
          /\ Len(execLog) = NumTasks
          /\ reportedCount = NumTasks
          /\ \A j \in 1..NumTasks : Written(wTasks[j])

C9_Witness ==
    /\ nCompleted = 1 /\ wpc = "idle"
    /\ wTasks = <<"logo", "overlay", "loop", "intro">>
    /\ execLog = <<0, 1, 2, 3>> /\ reportedCount = 4

\* C10: the temp_frames directory exists only inside the try block of
\* _generate_video: it is gone, with its frames, whenever the task has returned
\* or raised, and it was already gone when the terminal notification was emitted.
C10_TempRemoved ==
    /\ wpc \notin {"frame", "fwrite", "encode", "ffmpeg", "finally"} =>
          (~tempDir /\ tempFrames = 0)
    /\ ~tempAtTerminal

C10_Witness ==
    /\ wpc = "done" /\ failMsg = "task_cancelled" /\ cancelAt = "frame"
    /\ framesAfterCancel = 1 /\ ~tempDir /\ wTasks = <<"intro">>

\* C11 (the claim as stated): a video task extracts end_frame - start_frame
\* frame images when the source yields that many; when the source yields fewer
\* the extraction stops there without failing the task, and the session is not
\* reported as an ordinary success (progress 100, export_completed with the full
\* file count) the way a full extraction is.
C11_ShortfallObservable ==
    /\ wpc = "encode" =>
          /\ tempFrames = frame_index
          /\ exc = "none"
          /\ frame_index = total_frames \/ shortRead
    /\ (shortRead /\ wpc \in {"done", "idle"}) =>
          ~(nCompleted = 1 /\ reportedCount = NumTasks /\ progPct = 100)

\* a VideoExportParams record is valid for its own source
ValidParams(p) ==
    /\ 0 <= p.start_frame /\ p.start_frame < p.end_frame
    /\ p.end_frame <= p.src.frames
    /\ p.cropbox[1] >= 0 /\ p.cropbox[2] >= 0
    /\ p.cropbox[3] > 0 /\ p.cropbox[4] > 0
    /\ p.cropbox[1] + p.cropbox[3] <= p.src.w
    /\ p.cropbox[2] + p.cropbox[4] <= p.src.h

\* C12 (the claim as stated): every VideoExportParams record handed to the
\* export service, for the loop video and for the intro video, has
\* 0 <= start_frame < end_frame <= frame count of its own source and a crop
\* rectangle inside that source's frame.
C12_ParamsValid ==
    /\ loop_video_params # NoParams => ValidParams(loop_video_params)
    /\ intro_video_params # NoParams => ValidParams(intro_video_params)

\* C13: epconfig.txt is opened for writing at most once in a session, only
\* after every task has been executed and has succeeded and only for a non-empty
\* map; a write that went through left one <<key, "=", value>> line per entry,
\* in the map's insertion order; a session that ends with export_failed has not
\* touched the file.
C13_ManifestOnce ==
    /\ epconfigWrites <= 1
    /\ epconfigWrites = 0 => epconfigFile = <<>>
    /\ epconfigWrites = 1 =>
          /\ wEpconfig # <<>>
          /\ wpc \in {"final", "done", "idle"}
          /\ Len(execLog) = NumTasks
          /\ \A j \in 1..NumTasks : Written(wTasks[j])
          /\ nFailed = 0
          /\ ~manifestFailed =>
                /\ Len(epconfigFile) = Len(wEpconfig)
                /\ \A i \in 1..Len(wEpconfig) :
                      epconfigFile[i] = <<wEpconfig[i][1], "=", wEpconfig[i][2]>>
    /\ nFailed = 1 => epconfigWrites = 0

C13_Witness ==
    /\ wpc = "idle" /\ nCompleted = 1 /\ wEpconfig = GuiManifest
    /\ epconfigWrites = 1
    /\ epconfigFile = << <<"operator", "=", "op">>,
                         <<"background_color", "=", "0xffffffff">> >>

\* C14: when every task has succeeded and writing epconfig.txt fails, the
\* session still ends with export_completed carrying the full task count, never
\* with export_failed, and every asset file of the session stays whole.
C14_ManifestFailureKeepsSuccess ==
    manifestFailed =>
        /\ nFailed = 0
        /\ \A j \in 1..NumTasks : Written(wTasks[j])
        /\ wpc \in {"final", "done", "idle"}
        /\ wpc \in {"done", "idle"} => (nCompleted = 1 /\ reportedCount = NumTasks)

C14_Witness ==
    /\ manifestFailed /\ wpc = "idle" /\ nCompleted = 1 /\ reportedCount = 2
    /\ wTasks = <<"logo", "loop">> /\ Len(epconfigFile) = 1
    /\ argb["logo"] = PixelsPerImage /\ mp4["loop"]

C16_EmptyRejected ==
    /\ [](wpc # "idle" => wTasks # <<>>)
    /\ [](nCompleted = 1 => NumTasks > 0)
    /\ [](reqResult = "empty" => reqDirMade = NoDir)
    /\ [][(reqResult' = "empty" /\ RequestStep) =>
            UNCHANGED <<svcWorker, wpc, wFields, fsVars, termVars>>]_vars

C16_Witness ==
    /\ reqResult = "empty" /\ wpc = "idle" /\ ~svcWorker /\ ~outDirMade

\* C17 (the claim as stated): the logo bitmap is SCREEN_HEIGHT rows of
\* SCREEN_WIDTH pixels; the source scaled by min(256/W_src, 256/H_src) sits
\* centred in the 256x256 logo canvas, itself centred in the output, and every
\* other pixel, the bars inside the logo canvas included, has the configured
\* background colour.
C17_LogoTransform ==
    (preview_mode = "logo" /\ original_image # NoImage
        /\ ~ProcessRaises(original_image, "logo")) =>
        LET longer == Max2(original_image.w, original_image.h)
            new_w == (original_image.w * 256) \div longer
            new_h == (original_image.h * 256) \div longer
            left == 52 + ((256 - new_w) \div 2)
            top == 192 + ((256 - new_h) \div 2)
            bg == Colour(ParseArgb(background_color))
        IN  /\ Len(processed_image) = 640
            /\ \A yy \in 1..640 :
                  Canonical(processed_image[yy]) =
                      Canonical(IF yy > top /\ yy <= top + new_h
                                  THEN <<Run(left, bg),
                                         Run(new_w, SrcPixels(yy - top, 1)),
                                         Run(360 - left - new_w, bg)>>
                                  ELSE <<Run(360, bg)>>)

\* C20: the overlay/display bitmap is always SCREEN_HEIGHT rows of SCREEN_WIDTH
\* pixels; when the width-scaled source is taller its top SCREEN_HEIGHT rows are
\* kept, when it is shorter the rows missing are fully transparent and all lie
\* above the source's rows, none below.
C20_OverlayTransform ==
    (preview_mode \in {"overlay", "display"} /\ original_image # NoImage
        /\ ~ProcessRaises(original_image, preview_mode)) =>
        LET rh == (original_image.h * 360) \div original_image.w
            pad == IF rh < 640 THEN 640 - rh ELSE 0
        IN  /\ Len(processed_image) = 640
            /\ \A yy \in 1..640 :
                  Canonical(processed_image[yy]) =
                      IF yy <= pad THEN <<Run(360, Colour(<<0, 0, 0, 0>>))>>
                                   ELSE <<Run(360, SrcPixels(yy - pad, 1))>>

C20_Witness ==
    /\ preview_mode = "overlay" /\ original_image = [w |-> 360, h |-> 100]
    /\ Len(processed_image) = 640
    /\ processed_image[540] = <<Run(360, Colour(<<0, 0, 0, 0>>))>>
    /\ processed_image[541] = <<Run(360, SrcPixels(1, 1))>>
    /\ processed_image[640] = <<Run(360, SrcPixels(100, 1))>>

\* the four bytes the file holds for row yy, column xx of a bitmap w wide
FileBytesAt(yy, xx, w) ==
    SubSeq(result_file, 4 * ((yy - 1) * w + (xx - 1)) + 1,
                        4 * ((yy - 1) * w + (xx - 1)) + 4)

\* C18: the logo file holds h*w*4 bytes, and the pixel at row y, column x is
\* B, G, R of the input pixel at row y of the mirrored column, followed by 255
\* whatever the input's alpha is.
C18_LogoCodec ==
    codec = "logo" =>
        /\ Len(result_file) = Height(mat) * Width(mat) * 4
        /\ \A yy \in 1..Height(mat), xx \in 1..Width(mat) :
              FileBytesAt(yy, xx, Width(mat)) =
                  <<mat[yy][Width(mat) + 1 - xx][1], mat[yy][Width(mat) + 1 - xx][2],
                    mat[yy][Width(mat) + 1 - xx][3], 255>>

C18_Witness ==
    /\ codec = "logo" /\ Height(mat) = 2 /\ Width(mat) = 2 /\ Channels(mat) = 4
    /\ mat[1][1] = <<10, 20, 30, 40>> /\ mat[1][2] = <<50, 60, 70, 0>>
    /\ mat[2][1] = <<90, 100, 110, 255>>
    /\ SubSeq(result_file, 1, 8) = <<50, 60, 70, 255, 10, 20, 30, 255>>

\* C19: the overlay/display file holds h*w*4 bytes in B, G, R, A order, and the
\* pixel at row y, column x is the input pixel at the opposite row and column
\* (rotation by 180 degrees), its alpha the input's 4th channel when there is
\* one and 255 otherwise.
C19_OverlayCodec ==
    codec = "overlay" =>
        /\ Len(result_file) = Height(mat) * Width(mat) * 4
        /\ \A yy \in 1..Height(mat), xx \in 1..Width(mat) :
              LET src == mat[Height(mat) + 1 - yy][Width(mat) + 1 - xx]
              IN  FileBytesAt(yy, xx, Width(mat)) =
                      <<src[1], src[2], src[3],
                        IF Channels(mat) = 4 THEN src[4] ELSE 255>>

C19_Witness ==
    /\ codec = "overlay" /\ Height(mat) = 2 /\ Width(mat) = 2 /\ Channels(mat) = 4
    /\ mat[1][1] = <<10, 20, 30, 40>> /\ mat[2][2] = <<50, 60, 70, 0>>
    /\ mat[2][1] = <<90, 100, 110, 255>>
    /\ SubSeq(result_file, 1, 8) = <<50, 60, 70, 0, 90, 100, 110, 255>>

\* C29 (the claim as stated): TimelineSlider keeps
\* 0 <= in_point <= out_point <= total_frames - 1 in every reachable state,
\* from construction on and after any calls of set_total_frames, set_in_point
\* and set_out_point.
C29_TimelineOrdered ==
    /\ 0 <= in_point
    /\ in_point <= out_point
    /\ out_point <= tl_total_frames - 1


\* C30 (the claim as stated): with the in and out points left as the load of
\* an N-frame loop video set them, the loop record handed to the export service
\* asks for all N frames: end_frame - start_frame = N (the worker reads
\* end_frame - start_frame frames from start_frame on).
C30_DefaultRangeWhole ==
    (/\ loop_video_params # NoParams
     /\ ~range_touched
     /\ video = loop_video_params.src)
        => loop_video_params.end_frame - loop_video_params.start_frame
             = loop_video_params.src.frames

\* round(a / b) for a >= 0, b > 0 (a half is not met by the sizes used)
Round(a, b) == (2 * a + b) \div (2 * b)

\* C21 (the claim as stated): the height of the width-scaled source is
\* round(H_src * W_target / W_src), so an overlay/display bitmap of a shorter
\* source has exactly H_target minus that rounded height transparent rows, all
\* on top.
C21_RoundedHeight ==
    (preview_mode \in {"overlay", "display"} /\ original_image # NoImage
        /\ ~ProcessRaises(original_image, preview_mode)) =>
        LET rh == Round(original_image.h * SCREEN_WIDTH, original_image.w)
            pad == IF rh < SCREEN_HEIGHT THEN SCREEN_HEIGHT - rh ELSE 0
        IN  \A yy \in 1..SCREEN_HEIGHT :
                (Canonical(processed_image[yy])
                    = <<Run(SCREEN_WIDTH, Colour(<<0, 0, 0, 0>>))>>) <=> yy <= pad

\* C28 (the claim as stated): when an operator export queues both a logo and
\* an overlay bitmap, the logo bitmap is the logo transform of the chosen logo
\* file, the overlay bitmap is the overlay transform of the chosen overlay
\* file, and the two are not one and the same bitmap.
C28_EachTaskOwnBitmap ==
    (logo_mat # <<>> /\ overlay_mat # <<>>) =>
        /\ logo_mat = process_logo(logo_image_path, background_color)
        /\ overlay_mat = process_overlay_or_display(overlay_image_path,
                                                    SCREEN_WIDTH, SCREEN_HEIGHT)
        /\ logo_mat # overlay_mat

\* C22: every frame handed to the encoder is SCREEN_HEIGHT rows of VIDEO_WIDTH
\* pixels, the first VIDEO_WIDTH - SCREEN_WIDTH of every row black and the
\* other SCREEN_WIDTH the resized image; the image resized is the crop
\* rectangle of the source frame turned by 180 degrees; the k-th frame handed
\* over (file number k - 1) stems from source frame start_frame + k - 1, and
\* no written file is left out.
C22_EncoderFrames ==
    vpc = "done" =>
        /\ DOMAIN temp_files = 0..(Len(encoder_input) - 1)
        /\ \A k \in 1..Len(encoder_input) :
              LET f == encoder_input[k]
                  cb == vparams.cropbox
                  ch == Len(f.image)
                  cw == Len(f.image[1])
              IN  /\ f = temp_files[k - 1]
                  /\ f.height = SCREEN_HEIGHT
                  /\ f.row = <<[n |-> VIDEO_WIDTH - SCREEN_WIDTH, what |-> "black"],
                               [n |-> SCREEN_WIDTH, what |-> "image"]>>
                  /\ ch = Min2(cb[4], src_video.h - cb[2])
                  /\ cw = Min2(cb[3], src_video.w - cb[1])
                  /\ \A yy \in 1..ch, xx \in 1..cw :
                        f.image[yy][xx] =
                            <<vparams.start_frame + k - 1,
                              cb[2] + ch + 1 - yy, cb[1] + cw + 1 - xx>>

C22_Witness ==
    /\ vpc = "done" /\ Len(encoder_input) = 2
    /\ vparams.start_frame = 1 /\ vparams.cropbox = <<1, 0, 2, 2>>
    /\ encoder_input[2].image[1][1] = <<2, 2, 3>>

C25_CancelledNeverCompletes ==
    [][wCancelled => (nCompleted' = nCompleted /\ epconfigWrites' = epconfigWrites)]_vars

\* C26 (the claim as stated): the cleanup that follows the delivery of a
\* terminal notification releases only the worker of the session that sent it:
\* when the service holds a worker at that moment, the notification delivered
\* is that worker's own and not one an earlier session left in the queue.
C26_CleanupOwnWorker ==
    [][(uiPc = "idle" /\ uiPc' = "cleanup" /\ svcWorker) => Head(queue) = "cur"]_vars

\* C27: under the fairness of SpecLive every started session emits a terminal
\* notification; after a terminal notification the service comes to hold no
\* worker, is_exporting is false and the UI thread is out of the cleanup; and a
\* request made while is_exporting is false is never refused as busy: when it
\* names work it starts a running session whose cancellation flag is cleared.
C27_SessionEnds ==
    /\ (wpc = "run") ~> TerminalEmitted
    /\ TerminalEmitted ~> (~svcWorker /\ ~is_exporting /\ uiPc = "idle")
    /\ [][(RequestCall /\ ~is_exporting) =>
            /\ reqResult' # "busy"
            /\ reqResult' = "started" =>
                 (svcWorker' /\ wpc' = "run" /\ ~wCancelled' /\ ~TerminalEmitted')]_vars

\* a cancelled session has emitted its notification and has been cleaned up
C27_Witness ==
    /\ wCancelled /\ failMsg = "cancelled" /\ nFailed = 1
    /\ ~svcWorker /\ ~is_exporting /\ uiPc = "idle" /\ queue = <<>>

=============================================================================
